---- MODULE Spec2Model ----
(***************************************************************************)
(* A model of the posturography analysis dashboard:                        *)
(*   parser.py    parse_posturography_data   (text -> Document | None)     *)
(*   analysis.py  analyze_metric_data, analyze_radar_data, _calculate_stats*)
(*   app.py       the upload handling loop                                 *)
(*                                                                         *)
(* Text is modelled as a sequence of one-character strings, so that the    *)
(* regular expressions, split() and strip() calls of the parser are        *)
(* computed character by character as Python computes them.                *)
(***************************************************************************)
EXTENDS Integers, Sequences, FiniteSets, TLC

\* ------------------------------------------------------------------------
\* Characters and character classes
\* ------------------------------------------------------------------------
NL == "\n"
TAB == "\t"
\* U+00B2 SUPERSCRIPT TWO, one character of the text
SUP2 == "^2"

DigitSeq == <<"0","1","2","3","4","5","6","7","8","9">>
Digits == {DigitSeq[k] : k \in 1..10}
Upper == {"A","B","C","D","E","F","G","H","I","J","K","L","M",
          "N","O","P","Q","R","S","T","U","V","W","X","Y","Z"}
Lower == {"a","b","c","d","e","f","g","h","i","j","k","l","m",
          "n","o","p","q","r","s","t","u","v","w","x","y","z"}
\* \w of the re module
WordCh == Digits \cup Upper \cup Lower \cup {"_"}
\* \s of the re module, and what str.strip() removes
SpaceCh == {" ", NL, TAB}
\* [\w\s]
WordSpaceCh == WordCh \cup SpaceCh
\* [\d\.]
NumCh == Digits \cup {"."}

SetMin(S) == CHOOSE x \in S : \A y \in S : x <= y
SetMax(S) == CHOOSE x \in S : \A y \in S : y <= x

\* ------------------------------------------------------------------------
\* Literals of parser.py
\* ------------------------------------------------------------------------
S_TestSp == <<"T","e","s","t"," ">>
S_ColonSp == <<":"," ">>
S_SpParen == <<" ","(">>
S_FoamEyesClosed == <<"F","o","a","m"," ","E","y","e","s"," ","C","l","o","s","e","d">>
S_StarTestDate == <<"*"," ","T","e","s","t"," ","D","a","t","e",":">>
S_SwayCenter == <<"S","w","a","y"," ","C","e","n","t","e","r">>
S_QMax95 == <<"(","M","a","x"," ","&"," ","9","5","%",")">>
S_QMaxAve == <<"(","M","a","x"," ","&"," ","A","v","e",")">>
S_QMaxMin == <<"(","M","a","x"," ","&"," ","M","i","n",")">>
S_MCommaSp == <<"m",","," ">>
S_MBracket == <<"m","]">>
S_Amp == <<" ","&"," ">>
S_StabilityClass == <<"S","t","a","b","i","l","i","t","y"," ","C","l","a","s","s">>
S_Xo == <<" ","X","o">>
S_Yo == <<" ","Y","o">>

\* ------------------------------------------------------------------------
\* str methods
\* ------------------------------------------------------------------------
\* s[i], or the empty string past either end
At(s, i) == IF i \in 1..Len(s) THEN s[i] ELSE ""

\* s[i-1:].startswith(p)
StartsWithAt(s, i, p) ==
    /\ i >= 1
    /\ i + Len(p) - 1 <= Len(s)
    /\ \A k \in 1..Len(p) : s[i + k - 1] = p[k]

StartsWith(s, p) == StartsWithAt(s, 1, p)

\* p in s
Contains(s, p) == \E i \in 1..(Len(s) + 1) : StartsWithAt(s, i, p)

\* s.strip()
Strip(s) ==
    LET keep == {i \in 1..Len(s) : s[i] \notin SpaceCh}
    IN  IF keep = {} THEN <<>> ELSE SubSeq(s, SetMin(keep), SetMax(keep))

\* s.split(p): every piece between the non-overlapping occurrences of p
RECURSIVE Split(_, _)
Split(s, p) ==
    LET hits == {i \in 1..Len(s) : StartsWithAt(s, i, p)}
    IN  IF hits = {} THEN <<s>>
        ELSE LET i == SetMin(hits)
             IN  <<SubSeq(s, 1, i - 1)>> \o Split(SubSeq(s, i + Len(p), Len(s)), p)

\* s.split(p, 1): cut at the first occurrence of p only
Split1(s, p) ==
    LET hits == {i \in 1..Len(s) : StartsWithAt(s, i, p)}
    IN  IF hits = {} THEN <<s>>
        ELSE LET i == SetMin(hits)
             IN  <<SubSeq(s, 1, i - 1), SubSeq(s, i + Len(p), Len(s))>>

\* the last index of the run of characters of class C that starts at i
\* (i - 1 when s[i] is not of the class)
RunEnd(s, i, C) ==
    LET bad == {k \in i..Len(s) : s[k] \notin C}
    IN  IF bad = {} THEN Len(s) ELSE SetMin(bad) - 1

\* ------------------------------------------------------------------------
\* Regular expressions of parser.py.  Each operator returns what re.search
\* returns: the groups of the leftmost match, or NoMatch.
\* ------------------------------------------------------------------------
NoMatch == [ok |-> FALSE, g1 |-> <<>>, g2 |-> <<>>, g3 |-> <<>>]
Match(a, b, c) == [ok |-> TRUE, g1 |-> a, g2 |-> b, g3 |-> c]

\* the last index of a match of  Test \d+:<space>  starting at i, or 0
DelimEndAt(s, i) ==
    IF ~StartsWithAt(s, i, S_TestSp) THEN 0
    ELSE LET e == RunEnd(s, i + 5, Digits)
         IN  IF e >= i + 5 /\ StartsWithAt(s, e + 1, S_ColonSp) THEN e + 2 ELSE 0

\* re.split(r"Test \d+: ", s)
RECURSIVE ReSplitTest(_)
ReSplitTest(s) ==
    LET hits == {i \in 1..Len(s) : DelimEndAt(s, i) # 0}
    IN  IF hits = {} THEN <<s>>
        ELSE LET i == SetMin(hits)
             IN  <<SubSeq(s, 1, i - 1)>>
                   \o ReSplitTest(SubSeq(s, DelimEndAt(s, i) + 1, Len(s)))

\* re.search(r"([\w\s]+) \(([A-Z]{4})\)", s): g1 the description, g2 the acronym
KeyMatch(s) ==
    LET AcrAfter(j) == /\ StartsWithAt(s, j + 1, S_SpParen)
                       /\ \A k \in 3..6 : At(s, j + k) \in Upper
                       /\ At(s, j + 7) = ")"
        Ends(i) == {j \in i..RunEnd(s, i, WordSpaceCh) : AcrAfter(j)}
        starts == {i \in 1..Len(s) : Ends(i) # {}}
    IN  IF starts = {} THEN NoMatch
        ELSE LET i == SetMin(starts)
                 j == SetMax(Ends(i))
             IN  Match(SubSeq(s, i, j), SubSeq(s, j + 3, j + 6), <<>>)

\* re.search(r"([A-Z]{4}):?$", s): g1 the four letters
ShortNameMatch(s) ==
    LET n == Len(s)
        FourAt(i) == i >= 1 /\ \A k \in 0..3 : At(s, i + k) \in Upper
        starts == {i \in 1..n : /\ FourAt(i)
                                /\ \/ i + 3 = n
                                   \/ i + 4 = n /\ s[n] = ":"}
    IN  IF starts = {} THEN NoMatch
        ELSE LET i == SetMin(starts) IN Match(SubSeq(s, i, i + 3), <<>>, <<>>)

\* re.sub(r":$", "", s)
StripTrailingColon(s) ==
    IF Len(s) > 0 /\ s[Len(s)] = ":" THEN SubSeq(s, 1, Len(s) - 1) ELSE s

\* the last index of a match of  -?[\d\.]+  starting at i, or 0
NumEndAt(s, i) ==
    LET st == IF At(s, i) = "-" THEN i + 1 ELSE i
        e == RunEnd(s, st, NumCh)
    IN  IF i >= 1 /\ e >= st THEN e ELSE 0

\* re.search(r"^(-?[\d\.]+)", s): g1 the numeric token
NumericMatch(s) ==
    IF NumEndAt(s, 1) = 0 THEN NoMatch
    ELSE Match(SubSeq(s, 1, NumEndAt(s, 1)), <<>>, <<>>)

\* re.search(r"\[(-?[\d\.]+)\s*m, (-?[\d\.]+)\s*m\]", s)
CoordsMatch(s) ==
    LET E1(i) == NumEndAt(s, i + 1)
        W1(i) == RunEnd(s, E1(i) + 1, SpaceCh)
        E2(i) == NumEndAt(s, W1(i) + 4)
        W2(i) == RunEnd(s, E2(i) + 1, SpaceCh)
        At_(i) == /\ s[i] = "["
                  /\ E1(i) # 0
                  /\ StartsWithAt(s, W1(i) + 1, S_MCommaSp)
                  /\ E2(i) # 0
                  /\ StartsWithAt(s, W2(i) + 1, S_MBracket)
        starts == {i \in 1..Len(s) : At_(i)}
    IN  IF starts = {} THEN NoMatch
        ELSE LET i == SetMin(starts)
             IN  Match(SubSeq(s, i + 1, E1(i)), SubSeq(s, W1(i) + 4, E2(i)), <<>>)

\* the last index of  m(?:²?\/s?²?)?  whose "m" is at index j: the optional
\* group needs its "/", with or without a "²" before it
UnitEnd(s, j) ==
    LET a == IF At(s, j + 1) = SUP2 THEN j + 1 ELSE j
    IN  IF At(s, a + 1) # "/" THEN j
        ELSE LET b == a + 1
                 c == IF At(s, b + 1) = "s" THEN b + 1 ELSE b
             IN  IF At(s, c + 1) = SUP2 THEN c + 1 ELSE c

\* re.search(r"(-?[\d\.]+)\s*m(?:²?\/s?²?)? & (-?[\d\.]+)\s*m(?:²?\/s?²?)?", s)
ValuesMatch(s) ==
    LET E1(i) == NumEndAt(s, i)
        W1(i) == RunEnd(s, E1(i) + 1, SpaceCh)
        U1(i) == UnitEnd(s, W1(i) + 1)
        E2(i) == NumEndAt(s, U1(i) + 4)
        W2(i) == RunEnd(s, E2(i) + 1, SpaceCh)
        At_(i) == /\ E1(i) # 0
                  /\ At(s, W1(i) + 1) = "m"
                  /\ StartsWithAt(s, U1(i) + 1, S_Amp)
                  /\ E2(i) # 0
                  /\ At(s, W2(i) + 1) = "m"
        starts == {i \in 1..Len(s) : At_(i)}
    IN  IF starts = {} THEN NoMatch
        ELSE LET i == SetMin(starts)
             IN  Match(SubSeq(s, i, E1(i)), SubSeq(s, U1(i) + 4, E2(i)), <<>>)

\* re.search(r"\((Max & 95%|Max & Ave|Max & Min)\)", key) is not None
QualifierMatch(key) ==
    Contains(key, S_QMax95) \/ Contains(key, S_QMaxAve) \/ Contains(key, S_QMaxMin)

\* re.search(r"\((.*?)\)", key): g1 the text between the first "(" that has a
\* ")" after it and the nearest such ")"
KeyTypeMatch(key) ==
    LET Close(i) == {j \in (i + 1)..Len(key) : key[j] = ")"}
        starts == {i \in 1..Len(key) : key[i] = "(" /\ Close(i) # {}}
    IN  IF starts = {} \/ \E k \in 1..Len(key) : key[k] = NL THEN NoMatch
        ELSE LET i == SetMin(starts)
             IN  Match(SubSeq(key, i + 1, SetMin(Close(i)) - 1), <<>>, <<>>)

\* re.search(r"(\d{1,2}/\d{1,2}/\d{4})", s): g1 month, g2 day, g3 year digits
DateMatch(s) ==
    LET E1(i) == IF At(s, i + 1) \in Digits THEN i + 1 ELSE i
        E2(i) == IF At(s, E1(i) + 3) \in Digits THEN E1(i) + 3 ELSE E1(i) + 2
        At_(i) == /\ s[i] \in Digits
                  /\ At(s, E1(i) + 1) = "/"
                  /\ At(s, E1(i) + 2) \in Digits
                  /\ At(s, E2(i) + 1) = "/"
                  /\ \A k \in 2..5 : At(s, E2(i) + k) \in Digits
        starts == {i \in 1..Len(s) : At_(i)}
    IN  IF starts = {} THEN NoMatch
        ELSE LET i == SetMin(starts)
             IN  Match(SubSeq(s, i, E1(i)), SubSeq(s, E1(i) + 2, E2(i)),
                       SubSeq(s, E2(i) + 2, E2(i) + 5))

\* ------------------------------------------------------------------------
\* Conversions
\* ------------------------------------------------------------------------
DigitVal(c) == (CHOOSE k \in 1..10 : DigitSeq[k] = c) - 1

\* int() of a sequence of digits
RECURSIVE ToInt(_)
ToInt(ds) ==
    IF ds = <<>> THEN 0
    ELSE 10 * ToInt(SubSeq(ds, 1, Len(ds) - 1)) + DigitVal(ds[Len(ds)])

\* A float is the pair [m, e] standing for m / 10^e, with no trailing zero
\* decimal kept, so that equal numbers are equal pairs
RECURSIVE Norm(_, _)
Norm(m, e) == IF e > 0 /\ m % 10 = 0 THEN Norm(m \div 10, e - 1) ELSE [m |-> m, e |-> e]

\* float(tok) raises ValueError unless tok has a digit and at most one "."
FloatOk(tok) ==
    /\ Cardinality({i \in 1..Len(tok) : tok[i] = "."}) <= 1
    /\ \E i \in 1..Len(tok) : tok[i] \in Digits
    /\ \A i \in 1..Len(tok) : tok[i] \in NumCh \/ (i = 1 /\ tok[i] = "-")

\* float(tok), for a token float() accepts
ToFloat(tok) ==
    LET neg == At(tok, 1) = "-"
        dots == {i \in 1..Len(tok) : tok[i] = "."}
        frac == IF dots = {} THEN 0 ELSE Len(tok) - SetMin(dots)
        ds == SelectSeq(tok, LAMBDA c : c \in Digits)
        mag == ToInt(ds)
    IN  Norm(IF neg THEN 0 - mag ELSE mag, frac)

FloatVal(f) == [kind |-> "float", m |-> f.m, e |-> f.e, s |-> <<>>]
StrVal(t) == [kind |-> "str", m |-> 0, e |-> 0, s |-> t]

\* calendar of datetime
IsLeap(y) == (y % 4 = 0 /\ y % 100 # 0) \/ y % 400 = 0
DaysInMonth(mo, y) ==
    IF mo = 2 THEN (IF IsLeap(y) THEN 29 ELSE 28)
    ELSE IF mo \in {4, 6, 9, 11} THEN 30 ELSE 31

\* datetime.strptime(text, "%m/%d/%Y") raises ValueError unless this holds
StrptimeOk(dm) ==
    LET mo == ToInt(dm.g1)
        d == ToInt(dm.g2)
        y == ToInt(dm.g3)
    IN  mo \in 1..12 /\ y >= 1 /\ d \in 1..DaysInMonth(mo, y)

Strptime(dm) == [mo |-> ToInt(dm.g1), d |-> ToInt(dm.g2), y |-> ToInt(dm.g3)]

\* datetime.now(): the processing time, no date of any document
NOW == [mo |-> 0, d |-> 0, y |-> 0]

\* ------------------------------------------------------------------------
\* parse_posturography_data (parser.py)
\* ------------------------------------------------------------------------
VARIABLES
    content,       \* the text handed to parse_posturography_data
    pc,            \* where the parser is: "idle", "split", "block", "line",
                   \* "returned" or "raised"
    test_blocks,   \* the blocks the for loop has still to visit
    lines,         \* the field lines of the current block still to visit
    test_key,      \* the key of the current block
    test_data,     \* fullName and metrics of the current block
    data,          \* the Document being built: fileName, date, tests
    date_set,      \* whether a Test Date line has set data.date
    result         \* "none" while running, then "null", "doc" or "raise"

parserVars == <<content, pc, test_blocks, lines, test_key, test_data, data,
                date_set, result>>

\* the arguments and the result of the last call of an analysis function
VARIABLES
    all_parsed_data,   \* the documents handed to the function
    call,              \* the function called and its other arguments
    analysis           \* what it returned

analysisVars == <<all_parsed_data, call, analysis>>

\* the upload handling of app.py
VARIABLES
    uploaded_files,    \* what st.file_uploader returns: name, text, utf8
    upload,            \* the locals of the handling: pc ("idle", "loop" or
                       \* "parsing"), the files still to parse,
                       \* all_parsed_data, all_metrics, all_test_conditions
                       \* and parse_errors
    session_state      \* st.session_state

uploadVars == <<uploaded_files, upload, session_state>>

\* the selection part of app.py (lines 127 to 179)
VARIABLES
    selection          \* the values the selection widgets returned in the
                       \* last run of the script that drew them

\* a dict with no entry
EmptyMap == [k \in {} |-> 0]

\* d[k] = v
Put(d, k, v) == [x \in DOMAIN d \cup {k} |-> IF x = k THEN v ELSE d[x]]

\* the state of the function on entry (lines 6 to 11)
NewData(file_name) == [fileName |-> file_name, date |-> NOW, tests |-> EmptyMap]
NoTestData == [fullName |-> <<>>, metrics |-> EmptyMap]

\* DeriveTestKey without the variant word of a "Foam Eyes Closed" header
DeriveTestKey_NoVariant(test_name_line) ==
    LET key_match == KeyMatch(test_name_line)
    IN  IF key_match.ok /\ key_match.g1 # <<>> /\ key_match.g2 # <<>>
        THEN Strip(key_match.g2)
        ELSE LET short_name_match == ShortNameMatch(test_name_line)
             IN  IF short_name_match.ok /\ short_name_match.g1 # <<>>
                 THEN short_name_match.g1
                 ELSE Strip(Split(test_name_line, <<":">>)[1])

\* lines 24 to 41: the test key of a header line
DeriveTestKey(test_name_line) ==
    LET key_match == KeyMatch(test_name_line)
    IN  IF key_match.ok /\ key_match.g1 # <<>> /\ key_match.g2 # <<>>
        THEN LET description == Strip(key_match.g1)
                 acronym == Strip(key_match.g2)
             IN  IF StartsWith(description, S_FoamEyesClosed)
                 THEN LET words == Split(description, <<" ">>)
                          variant == words[Len(words)]
                      IN  acronym \o <<" ">> \o variant
                 ELSE acronym
        ELSE LET short_name_match == ShortNameMatch(test_name_line)
             IN  IF short_name_match.ok /\ short_name_match.g1 # <<>>
                 THEN short_name_match.g1
                 ELSE Strip(Split(test_name_line, <<":">>)[1])

\* what one field line leaves behind: the metrics, or an uncaught ValueError
Stored(metrics) == [raised |-> FALSE, metrics |-> metrics]
ValueError(metrics) == [raised |-> TRUE, metrics |-> metrics]

\* lines 73 to 77: the Sway Center pair
SwayCenterMetrics(metrics, key, value) ==
    LET coords == CoordsMatch(value)
    IN  IF coords.ok
        THEN IF ~FloatOk(coords.g1) THEN ValueError(metrics)
             ELSE LET withX == Put(metrics, key \o S_Xo, FloatVal(ToFloat(coords.g1)))
                  IN  IF ~FloatOk(coords.g2) THEN ValueError(withX)
                      ELSE Stored(Put(withX, key \o S_Yo, FloatVal(ToFloat(coords.g2))))
        ELSE Stored(metrics)

\* lines 79 to 94: a (Max & 95%), (Max & Ave) or (Max & Min) pair
PairMetrics(metrics, key, value) ==
    LET values == ValuesMatch(value)
    IN  IF values.ok
        THEN LET key_root == Strip(Split(key, <<"(">>)[1])
                 key_type_match == KeyTypeMatch(key)
             IN  IF key_type_match.ok
                 THEN LET names == Split(key_type_match.g1, S_Amp)
                      IN  \* val1_name, val2_name = ... unpacks exactly two
                          IF Len(names) # 2 \/ ~FloatOk(values.g1)
                          THEN ValueError(metrics)
                          ELSE LET with1 == Put(metrics,
                                                key_root \o S_SpParen \o names[1] \o <<")">>,
                                                FloatVal(ToFloat(values.g1)))
                               IN  IF ~FloatOk(values.g2) THEN ValueError(with1)
                                   ELSE Stored(Put(with1,
                                                   key_root \o S_SpParen \o names[2] \o <<")">>,
                                                   FloatVal(ToFloat(values.g2))))
                 ELSE Stored(metrics)
        ELSE Stored(metrics)

\* lines 70 to 100: the cascade applied to the key and value of a field line
FieldMetrics(metrics, key, value) ==
    LET numeric_match == NumericMatch(value)
    IN  IF numeric_match.ok
        THEN IF Contains(key, S_SwayCenter)
             THEN SwayCenterMetrics(metrics, key, value)
             ELSE IF QualifierMatch(key)
             THEN PairMetrics(metrics, key, value)
             ELSE IF FloatOk(numeric_match.g1)
                  THEN Stored(Put(metrics, key, FloatVal(ToFloat(numeric_match.g1))))
                  ELSE ValueError(metrics)
        ELSE IF key = S_StabilityClass
             THEN Stored(Put(metrics, key, StrVal(Strip(Split(value, <<"|">>)[1]))))
             ELSE Stored(metrics)

\* DateStep without the "not date_set" test: the last date line wins
DateStep_LastWins(line, date, isSet) ==
    LET date_match == DateMatch(line)
    IN  IF date_match.ok /\ StrptimeOk(date_match)
        THEN [date |-> Strptime(date_match), date_set |-> TRUE]
        ELSE [date |-> date, date_set |-> isSet]

\* lines 53 to 60: a Test Date line; the date and date_set it leaves
DateStep(line, date, isSet) ==
    LET date_match == DateMatch(line)
    IN  IF date_match.ok /\ ~isSet /\ StrptimeOk(date_match)
        THEN [date |-> Strptime(date_match), date_set |-> TRUE]
        ELSE [date |-> date, date_set |-> isSet]

\* lines 62 to 100: any other line; the metrics it leaves, or a ValueError
FieldStep(line, metrics) ==
    IF StartsWith(line, <<"*">>)
    THEN LET parts == Split1(SubSeq(line, 2, Len(line)), <<":">>)
         IN  IF Len(parts) < 2 THEN Stored(metrics)
             ELSE FieldMetrics(metrics, Strip(parts[1]), Strip(parts[2]))
    ELSE Stored(metrics)

\* line 105: what the function returns for the tests it kept
ReturnValue(tests) == IF DOMAIN tests # {} THEN "doc" ELSE "null"

\* Retained without the test of line 102: every block with a key is kept
Retained_Always(metrics) == TRUE

\* line 102: whether the block is kept
Retained(metrics) == DOMAIN metrics # {}

\* lines 13 to 18
ParseSplit ==
    /\ pc = "split"
    /\ LET blocks == Tail(ReSplitTest(content))
       IN  IF blocks = <<>>
           THEN /\ pc' = "returned"
                /\ result' = "null"
                /\ test_blocks' = <<>>
           ELSE /\ pc' = "block"
                /\ result' = result
                /\ test_blocks' = blocks
    /\ UNCHANGED <<content, lines, test_key, test_data, data, date_set>>
    /\ UNCHANGED <<analysisVars, uploadVars, selection>>

\* lines 20 to 49: the header of the next block
ParseBlock ==
    /\ pc = "block"
    /\ test_blocks # <<>>
    /\ LET block == Head(test_blocks)
           blines == Split(block, <<NL>>)
           test_name_line == Strip(blines[1])
           key == DeriveTestKey(test_name_line)
       IN  IF key = <<>>
           THEN \* continue
                /\ test_key' = key
                /\ UNCHANGED <<pc, lines, test_data>>
           ELSE /\ pc' = "line"
                /\ lines' = Tail(blines)
                /\ test_key' = key
                /\ test_data' = [fullName |-> StripTrailingColon(test_name_line),
                                 metrics |-> EmptyMap]
    /\ test_blocks' = Tail(test_blocks)
    /\ UNCHANGED <<content, data, date_set, result>>
    /\ UNCHANGED <<analysisVars, uploadVars, selection>>

\* lines 51 to 100: the next field line of the block
ParseLine ==
    /\ pc = "line"
    /\ lines # <<>>
    /\ LET line == Strip(Head(lines))
       IN  IF StartsWith(line, S_StarTestDate)
           THEN LET after == DateStep(line, data.date, date_set)
                IN  /\ data' = [data EXCEPT !.date = after.date]
                    /\ date_set' = after.date_set
                    /\ UNCHANGED <<pc, test_data, result>>
           ELSE LET after == FieldStep(line, test_data.metrics)
                IN  /\ test_data' = [test_data EXCEPT !.metrics = after.metrics]
                    /\ pc' = IF after.raised THEN "raised" ELSE pc
                    /\ result' = IF after.raised THEN "raise" ELSE result
                    /\ UNCHANGED <<data, date_set>>
    /\ lines' = Tail(lines)
    /\ UNCHANGED <<content, test_blocks, test_key>>
    /\ UNCHANGED <<analysisVars, uploadVars, selection>>

\* lines 102 and 103: the end of the block
ParseEndBlock ==
    /\ pc = "line"
    /\ lines = <<>>
    /\ data' = IF Retained(test_data.metrics)
               THEN [data EXCEPT !.tests = Put(data.tests, test_key, test_data)]
               ELSE data
    /\ pc' = "block"
    /\ UNCHANGED <<content, test_blocks, lines, test_key, test_data, date_set, result>>
    /\ UNCHANGED <<analysisVars, uploadVars, selection>>

\* line 105
ParseReturn ==
    /\ pc = "block"
    /\ test_blocks = <<>>
    /\ result' = ReturnValue(data.tests)
    /\ pc' = "returned"
    /\ UNCHANGED <<content, test_blocks, lines, test_key, test_data, data, date_set>>
    /\ UNCHANGED <<analysisVars, uploadVars, selection>>

ParseNext == ParseSplit \/ ParseBlock \/ ParseLine \/ ParseEndBlock \/ ParseReturn

\* the parser called on text c for file f
ParseEntry(c, f) ==
    /\ content = c
    /\ pc = "split"
    /\ test_blocks = <<>>
    /\ lines = <<>>
    /\ test_key = <<>>
    /\ test_data = NoTestData
    /\ data = NewData(f)
    /\ date_set = FALSE
    /\ result = "none"

\* ------------------------------------------------------------------------
\* Numbers of the analysis (analysis.py): a float is the exact rational
\* n / d with d > 0 and n, d coprime; a cell of a table or a point of a chart
\* is a number, NaN, an infinity or a string
\* ------------------------------------------------------------------------
Abs(x) == IF x < 0 THEN 0 - x ELSE x

RECURSIVE Gcd(_, _)
Gcd(a, b) == IF b = 0 THEN a ELSE Gcd(b, a % b)

Rat(n, d) ==
    LET g == Gcd(Abs(n), Abs(d))
        s == IF d < 0 THEN 0 - 1 ELSE 1
    IN  [n |-> (s * n) \div g, d |-> (s * d) \div g]

RECURSIVE Pow10(_)
Pow10(k) == IF k = 0 THEN 1 ELSE 10 * Pow10(k - 1)

RAdd(x, y) == Rat(x.n * y.d + y.n * x.d, x.d * y.d)
RSub(x, y) == Rat(x.n * y.d - y.n * x.d, x.d * y.d)
RMul(x, y) == Rat(x.n * y.n, x.d * y.d)
RDiv(x, y) == Rat(x.n * y.d, x.d * y.n)
RLess(x, y) == x.n * y.d < y.n * x.d

\* round(x, k) of numpy: to the nearest multiple of 10^-k, a tie to the even one
Round(x, k) ==
    LET num == x.n * Pow10(k)
        q == num \div x.d
        r == num - q * x.d
        up == 2 * r > x.d \/ (2 * r = x.d /\ q % 2 = 1)
    IN  Rat(IF up THEN q + 1 ELSE q, Pow10(k))

\* floor(10^k * n / d) and what is left, by long division
RECURSIVE Scaled(_, _, _)
Scaled(n, d, k) ==
    IF k = 0 THEN [q |-> n \div d, r |-> n % d]
    ELSE LET p == Scaled(n, d, k - 1)
         IN  [q |-> 10 * p.q + (10 * p.r) \div d, r |-> (10 * p.r) % d]

\* the largest k of lo..hi with k * k <= t
RECURSIVE IsqrtIn(_, _, _)
IsqrtIn(t, lo, hi) ==
    IF lo = hi THEN lo
    ELSE LET mid == (lo + hi + 1) \div 2
         IN  IF mid * mid <= t THEN IsqrtIn(t, mid, hi) ELSE IsqrtIn(t, lo, mid - 1)

\* round(sqrt(x), 3) for x >= 0
SqrtRound3(x) ==
    LET p == Scaled(x.n, x.d, 6)
        k == IsqrtIn(p.q, 0, 46340)
        half == k * k + k
        up == \/ p.q > half
              \/ p.q = half /\ 4 * p.r > x.d
              \/ p.q = half /\ 4 * p.r = x.d /\ k % 2 = 1
    IN  Rat(IF up THEN k + 1 ELSE k, 1000)

NaN == [kind |-> "nan", n |-> 0, d |-> 1, s |-> <<>>]
Num(x) == [kind |-> "num", n |-> x.n, d |-> x.d, s |-> <<>>]
Inf(sign) == [kind |-> "inf", n |-> sign, d |-> 1, s |-> <<>>]
Text(t) == [kind |-> "str", n |-> 0, d |-> 1, s |-> t]
IsNum(c) == c.kind = "num"
Q(c) == [n |-> c.n, d |-> c.d]

\* dict.get() that finds nothing
None == [kind |-> "none", m |-> 0, e |-> 0, s |-> <<>>]

\* a value the parser stored, as a cell: a float, or the string of a class
ToCell(val) ==
    IF val.kind = "float" THEN Num(Rat(val.m, Pow10(val.e))) ELSE Text(val.s)

\* arithmetic of float columns: NaN in, NaN out; x / 0 is an infinity
CSub(a, b) == IF IsNum(a) /\ IsNum(b) THEN Num(RSub(Q(a), Q(b))) ELSE NaN
CDiv(a, b) ==
    IF ~(IsNum(a) /\ IsNum(b)) THEN NaN
    ELSE IF b.n # 0 THEN Num(RDiv(Q(a), Q(b)))
    ELSE IF a.n = 0 THEN NaN
    ELSE Inf(IF a.n < 0 THEN 0 - 1 ELSE 1)
CTimes100(a) == IF IsNum(a) THEN Num(RMul(Q(a), Rat(100, 1))) ELSE a
CRound(a, k) == IF IsNum(a) THEN Num(Round(Q(a), k)) ELSE a

\* the order of sorted() on str: by code point, a prefix first; Ascii lists
\* the characters from code point 32 on (the quote, the backslash and the backtick,
\* which no text of the model holds, by their names)
Ascii == <<" ","!","QUOTE","#","$","%","&","'","(",")","*","+",",","-",".","/","0","1","2","3","4","5","6","7","8","9",":",";","<","=",">","?","@","A","B","C","D","E","F","G","H","I","J","K","L","M","N","O","P","Q","R","S","T","U","V","W","X","Y","Z","[","BACKSLASH","]","^","_","BACKTICK","a","b","c","d","e","f","g","h","i","j","k","l","m","n","o","p","q","r","s","t","u","v","w","x","y","z","{","|","}","~">>
CodePoint(c) ==
    IF c = TAB THEN 9
    ELSE IF c = NL THEN 10
    ELSE IF c = SUP2 THEN 178
    ELSE 31 + (CHOOSE k \in 1..Len(Ascii) : Ascii[k] = c)

RECURSIVE LexLess(_, _)
LexLess(a, b) ==
    IF b = <<>> THEN FALSE
    ELSE IF a = <<>> THEN TRUE
    ELSE IF Head(a) # Head(b) THEN CodePoint(Head(a)) < CodePoint(Head(b))
    ELSE LexLess(Tail(a), Tail(b))

RECURSIVE Sorted(_)
Sorted(S) ==
    IF S = {} THEN <<>>
    ELSE LET least == CHOOSE x \in S : \A y \in S \ {x} : LexLess(x, y)
         IN  <<least>> \o Sorted(S \ {least})

\* the elements of a sequence in the order of their first appearance
RECURSIVE Unique(_)
Unique(s) ==
    IF s = <<>> THEN <<>>
    ELSE <<Head(s)>> \o SelectSeq(Unique(Tail(s)), LAMBDA x : x # Head(s))

\* ------------------------------------------------------------------------
\* analysis.py
\* ------------------------------------------------------------------------
KM_StabilityScore == <<"S","t","a","b","i","l","i","t","y"," ","S","c","o","r","e">>
KM_SwayPathLength == <<"S","w","a","y"," ","P","a","t","h"," ","L","e","n","g","t","h">>
KM_SwayVelocityAve == <<"S","w","a","y"," ","V","e","l","o","c","i","t","y"," ","(","A","v","e",")">>
KM_Area95 == <<"A","r","e","a"," ","9","5","%"," ","C","o","n","f","."," ","E","l","l","i","p","s","e">>
KM_FatigueRatio == <<"F","a","t","i","g","u","e"," ","R","a","t","i","o">>
KM_AdaptationRatio == <<"A","d","a","p","t","a","t","i","o","n"," ","R","a","t","i","o">>
KM_Directionality == <<"D","i","r","e","c","t","i","o","n","a","l","i","t","y">>

\* lines 6 to 14
RADAR_KEY_METRICS_CONFIG ==
    (KM_StabilityScore :> "high") @@ (KM_SwayPathLength :> "low")
    @@ (KM_SwayVelocityAve :> "low") @@ (KM_Area95 :> "low")
    @@ (KM_FatigueRatio :> "low") @@ (KM_AdaptationRatio :> "high")
    @@ (KM_Directionality :> "low")

\* a table: the labels of its rows, the names of its columns and, row by
\* row, the cells under the columns
DataFrame(index, columns, cells) ==
    [index |-> index, columns |-> columns, cells |-> cells]
EmptyDataFrame == DataFrame(<<>>, <<>>, <<>>)

\* line 25: pd.to_numeric(errors="coerce")
ToNumeric(c) == IF IsNum(c) THEN c ELSE NaN

\* line 30: Series.replace(0, np.nan), left out
ReplaceZero_Keep(c) == c

\* line 30: Series.replace(0, np.nan)
ReplaceZero(c) == IF IsNum(c) /\ c.n = 0 THEN NaN ELSE c

RECURSIVE RSum(_)
RSum(xs) == IF xs = <<>> THEN Rat(0, 1) ELSE RAdd(Head(xs), RSum(Tail(xs)))

\* line 35: DataFrame.mean(axis=1) of one row, NaN skipped
Mean(row) ==
    LET xs == SelectSeq(row, IsNum)
    IN  IF xs = <<>> THEN NaN
        ELSE Num(RDiv(RSum([k \in 1..Len(xs) |-> Q(xs[k])]), Rat(Len(xs), 1)))

\* line 36: DataFrame.std(axis=1) of one row, the sample deviation (ddof = 1)
\* with NaN skipped, then round(3)
StdDev(row) ==
    LET xs == SelectSeq(row, IsNum)
        mean == Q(Mean(row))
        dev2 == [k \in 1..Len(xs) |->
                    RMul(RSub(Q(xs[k]), mean), RSub(Q(xs[k]), mean))]
    IN  IF Len(xs) < 2 THEN NaN
        ELSE Num(SqrtRound3(RDiv(RSum(dev2), Rat(Len(xs) - 1, 1))))

\* lines 22 to 38: _calculate_stats
CalculateStats(df, file_names) ==
    LET num_files == Len(file_names)
        Col(name) == CHOOSE k \in 1..Len(df.columns) : df.columns[k] = name
        df_numeric(r) ==
            [k \in 1..num_files |-> ToNumeric(df.cells[r][Col(file_names[k])])]
        change(r) == CSub(df_numeric(r)[2], df_numeric(r)[1])
        pct(r) == CTimes100(CDiv(change(r), ReplaceZero(df_numeric(r)[1])))
        added ==
            IF num_files = 2 THEN <<"Change", "% Change">>
            ELSE IF num_files > 2 THEN <<"Mean", "Std Dev">>
            ELSE <<>>
        extra(r) ==
            IF num_files = 2 THEN <<CRound(change(r), 3), CRound(pct(r), 1)>>
            ELSE IF num_files > 2
            THEN <<CRound(Mean(df_numeric(r)), 3), StdDev(df_numeric(r))>>
            ELSE <<>>
        wide(r) == df.cells[r] \o extra(r)
    IN  DataFrame(df.index,
                  df.columns \o added,
                  [r \in 1..Len(df.cells) |->
                      [k \in 1..Len(wide(r)) |-> CRound(wide(r)[k], 3)]])

\* [d["fileName"] for d in all_parsed_data]
FileNamesOf(docs) == [i \in 1..Len(docs) |-> docs[i].fileName]

\* file_data.get("tests", {}).get(test, {}).get("metrics", {}).get(metric)
Lookup(file_data, test, metric) ==
    IF test \in DOMAIN file_data.tests
    THEN IF metric \in DOMAIN file_data.tests[test].metrics
         THEN file_data.tests[test].metrics[metric]
         ELSE None
    ELSE None

\* line 64 with 0 in the place of np.nan
ValueOrNaN_Zero(val) == IF val = None THEN Num(Rat(0, 1)) ELSE ToCell(val)

\* line 64: val if val is not None else np.nan
ValueOrNaN(val) == IF val = None THEN NaN ELSE ToCell(val)

\* reset_index() of a table whose index is called name
ResetIndex(df, name) ==
    DataFrame(<<>>,
              <<name>> \o df.columns,
              [r \in 1..Len(df.cells) |-> <<Text(df.index[r])>> \o df.cells[r]])

\* lines 40 to 117: analyze_metric_data, for a metric that some test of
\* some document has
AnalyzeMetric(metric, docs) ==
    LET file_names == FileNamesOf(docs)
        n == Len(docs)
        common_tests ==
            {t \in UNION {DOMAIN docs[i].tests : i \in 1..n} :
                \E i \in 1..n : /\ t \in DOMAIN docs[i].tests
                                /\ metric \in DOMAIN docs[i].tests[t].metrics}
        sorted_tests == Sorted(common_tests)
        data_to_plot ==
            [k \in 1..(Len(sorted_tests) * n) |->
                LET test == sorted_tests[((k - 1) \div n) + 1]
                    i == ((k - 1) % n) + 1
                IN  [TestCondition |-> test,
                     File |-> file_names[i],
                     Value |-> ValueOrNaN(Lookup(docs[i], test, metric))]]
        df_plot == SelectSeq(data_to_plot, LAMBDA row : row.Value # NaN)
        colors == Unique([k \in 1..Len(df_plot) |-> df_plot[k].File])
        Bars(file) ==
            LET rows == SelectSeq(df_plot, LAMBDA row : row.File = file)
            IN  [name |-> file,
                 x |-> [k \in 1..Len(rows) |-> rows[k].TestCondition],
                 y |-> [k \in 1..Len(rows) |-> rows[k].Value]]
        fig == [kind |-> "bar",
                data |-> [c \in 1..Len(colors) |-> Bars(colors[c])]]
        Pivot(test, file) ==
            LET rows == SelectSeq(df_plot,
                          LAMBDA row : row.TestCondition = test /\ row.File = file)
            IN  IF rows = <<>> THEN NaN ELSE rows[1].Value
        df_table ==
            DataFrame(sorted_tests, file_names,
                      [r \in 1..Len(sorted_tests) |->
                          [c \in 1..n |-> Pivot(sorted_tests[r], file_names[c])]])
        stats == ResetIndex(CalculateStats(df_table, file_names), "Test Condition")
    IN  [type |-> "metric",
         fig |-> fig,
         table_data |->
            DataFrame(<<>>,
                      <<"Metric">> \o stats.columns,
                      [r \in 1..Len(stats.cells) |-> <<Text(metric)>> \o stats.cells[r]])]

\* line 179 without the table: every metric counts as high-is-better
Orientation_AllHigh(metric) == "high"

\* line 179: RADAR_KEY_METRICS_CONFIG.get(metric, "high")
Orientation(metric) ==
    IF metric \in DOMAIN RADAR_KEY_METRICS_CONFIG
    THEN RADAR_KEY_METRICS_CONFIG[metric]
    ELSE "high"

\* min() and max() of a non-empty set of rationals
RMin(S) == CHOOSE x \in S : \A y \in S : ~RLess(y, x)
RMax(S) == CHOOSE x \in S : \A y \in S : ~RLess(x, y)

\* line 188: np.clip(norm_val, 0, 1)
Clip01(x) ==
    IF RLess(x, Rat(0, 1)) THEN Rat(0, 1)
    ELSE IF RLess(Rat(1, 1), x) THEN Rat(1, 1)
    ELSE x

\* lines 214 to 231: the range of the radial axis
RadialRange(normalize, plotted) ==
    IF normalize THEN <<Rat(0, 1), Rat(100, 1)>>
    ELSE IF plotted = {} THEN <<Rat(0, 1), Rat(1, 1)>>
    ELSE IF RMin(plotted) = RMax(plotted)
         THEN <<RMin(plotted), RAdd(RMin(plotted), Rat(1, 1))>>
    ELSE IF RLess(Rat(0, 1), RMin(plotted)) THEN <<Rat(0, 1), RMax(plotted)>>
    ELSE <<RMin(plotted), RMax(plotted)>>

\* what a call that raises leaves behind
Raised == [type |-> "raise"]

\* lines 119 to 286: analyze_radar_data
AnalyzeRadar(test, selected_radar_metrics, docs, normalize) ==
    LET file_names == FileNamesOf(docs)
        n == Len(docs)
        m == Len(selected_radar_metrics)
        Val(i, j) == Lookup(docs[i], test, selected_radar_metrics[j])
        values(j) == {Q(ToCell(Val(i, j))) : i \in {h \in 1..n : Val(h, j) # None}}
        min_val(j) == IF values(j) # {} THEN RMin(values(j)) ELSE Rat(0, 1)
        max_val(j) == IF values(j) # {} THEN RMax(values(j)) ELSE Rat(0, 1)
        norm_val(i, j) ==
            IF max_val(j) = min_val(j) THEN Rat(1, 1)
            ELSE LET x == RDiv(RSub(Q(ToCell(Val(i, j))), min_val(j)),
                               RSub(max_val(j), min_val(j)))
                 IN  IF Orientation(selected_radar_metrics[j]) = "low"
                     THEN RSub(Rat(1, 1), x)
                     ELSE x
        normalized_data(i) ==
            [j \in 1..m |->
                IF Val(i, j) = None THEN NaN
                ELSE IF normalize
                     THEN Num(RMul(Clip01(norm_val(i, j)), Rat(100, 1)))
                     ELSE ToCell(Val(i, j))]
        original_data(i) ==
            [j \in 1..m |-> IF Val(i, j) = None THEN NaN ELSE ToCell(Val(i, j))]
        plotted == {Q(ToCell(Val(i, j))) :
                      <<i, j>> \in {p \in (1..n) \X (1..m) : Val(p[1], p[2]) # None}}
        fig == [kind |-> "polar",
                data |-> [i \in 1..n |->
                            [name |-> file_names[i],
                             r |-> normalized_data(i),
                             theta |-> selected_radar_metrics,
                             customdata |-> original_data(i)]],
                range |-> RadialRange(normalize, plotted)]
        df_table ==
            DataFrame(selected_radar_metrics, file_names,
                      [j \in 1..m |->
                          [i \in 1..n |->
                              IF Val(i, j) = None THEN NaN ELSE ToCell(Val(i, j))]])
    IN  IF selected_radar_metrics = <<>>
        THEN [type |-> "radar", fig |-> [kind |-> "none"],
              table_data |-> EmptyDataFrame]
        ELSE IF \E i \in 1..n, j \in 1..m : Val(i, j).kind = "str"
        THEN Raised
        ELSE [type |-> "radar",
              fig |-> fig,
              table_data |-> ResetIndex(CalculateStats(df_table, file_names), "Metric"),
              normalized |-> normalize]

NoCall == [fn |-> "none"]
NoAnalysis == [type |-> "none"]
AnalysisIdle(docs) ==
    /\ all_parsed_data = docs
    /\ call = NoCall
    /\ analysis = NoAnalysis

\* every metric and every test key of the documents
MetricsOf(docs) ==
    UNION {DOMAIN docs[i].tests[t].metrics :
              <<i, t>> \in {p \in (1..Len(docs)) \X UNION {DOMAIN docs[k].tests : k \in 1..Len(docs)} :
                              p[2] \in DOMAIN docs[p[1]].tests}}
TestsOf(docs) == UNION {DOMAIN docs[i].tests : i \in 1..Len(docs)}


\* ------------------------------------------------------------------------
\* The upload handling of app.py (lines 74 to 115)
\* ------------------------------------------------------------------------
\* lines 20 to 22
DEFAULT_INTERPRETATION_MESSAGE == "Click the button to generate an AI-powered clinical interpretation..."

\* lines 26 to 36 and initialize_session_state (lines 39 to 43)
SESSION_STATE_FACTORIES ==
    [all_parsed_data |-> <<>>,
     all_metrics |-> <<>>,
     all_test_conditions |-> <<>>,
     uploaded_file_names |-> <<>>,
     interpretation |-> DEFAULT_INTERPRETATION_MESSAGE,
     generating_ai |-> FALSE,
     current_analysis |-> NoAnalysis,
     page_init |-> TRUE,
     normalize_radar |-> TRUE]

\* the locals of the handling between two files: nothing being handled
NoUpload ==
    [pc |-> "idle", files |-> <<>>, all_parsed_data |-> <<>>,
     all_metrics |-> {}, all_test_conditions |-> {}, parse_errors |-> <<>>]

\* no selection widget has a value: none was drawn since the keys of the
\* session were last deleted (reset_session, lines 48 to 50)
NoSelection == [analysis_mode |-> "none"]

UploadIdle ==
    /\ uploaded_files = <<>>
    /\ upload = NoUpload
    /\ session_state = SESSION_STATE_FACTORIES
    /\ selection = NoSelection

\* the parser when it is not running
ParserIdle ==
    /\ content = <<>>
    /\ pc = "idle"
    /\ test_blocks = <<>>
    /\ lines = <<>>
    /\ test_key = <<>>
    /\ test_data = NoTestData
    /\ data = NewData("")
    /\ date_set = FALSE
    /\ result = "none"

\* the order of datetime on the dates of documents; a document without a
\* date line carries the time of its parsing, which is later than the test
\* date of any document and not before the time of an earlier parsing
DateBefore(a, b) ==
    IF a = NOW THEN FALSE
    ELSE IF b = NOW THEN TRUE
    ELSE \/ a.y < b.y
         \/ a.y = b.y /\ a.mo < b.mo
         \/ a.y = b.y /\ a.mo = b.mo /\ a.d < b.d

\* line 109: list.sort(key=date), which keeps the order of equal dates
RECURSIVE SortByDate(_)
SortByDate(docs) ==
    IF docs = <<>> THEN <<>>
    ELSE LET rest == SortByDate(SubSeq(docs, 1, Len(docs) - 1))
             x == docs[Len(docs)]
             later == {k \in 1..Len(rest) : DateBefore(x.date, rest[k].date)}
             at == IF later = {} THEN Len(rest) + 1 ELSE SetMin(later)
         IN  SubSeq(rest, 1, at - 1) \o <<x>> \o SubSeq(rest, at, Len(rest))

\* lines 74 to 85: the user leaves files in the uploader and the script
\* runs; the files are handled when their names are not the names handled last
UploadFiles(files) ==
    /\ upload.pc = "idle"
    /\ uploaded_files' = files
    /\ LET current_file_names == [i \in 1..Len(files) |-> files[i].name]
           previous_file_names == session_state.uploaded_file_names
       IN  IF files # <<>> /\ previous_file_names # current_file_names
           THEN /\ session_state' =
                     [SESSION_STATE_FACTORIES EXCEPT
                         !.uploaded_file_names = current_file_names]
                /\ upload' = [NoUpload EXCEPT !.pc = "loop", !.files = files]
                /\ selection' = NoSelection
           ELSE UNCHANGED <<session_state, upload, selection>>
    /\ UNCHANGED <<parserVars, analysisVars>>

\* lines 88 to 90 and 100 to 102: the bytes of the next file are no UTF-8
\* text, decode() raises and the except clause records the error
UploadDecodeError ==
    /\ upload.pc = "loop"
    /\ upload.files # <<>>
    /\ ~Head(upload.files).utf8
    /\ upload' = [upload EXCEPT
                     !.files = Tail(upload.files),
                     !.parse_errors = Append(upload.parse_errors,
                        [file |-> Head(upload.files).name, error |-> "exception"])]
    /\ UNCHANGED <<uploaded_files, session_state, parserVars, analysisVars, selection>>

\* lines 88 to 91: parse_posturography_data is called on the next file
UploadCallParser ==
    /\ upload.pc = "loop"
    /\ upload.files # <<>>
    /\ Head(upload.files).utf8
    /\ upload' = [upload EXCEPT !.pc = "parsing"]
    /\ content' = Head(upload.files).text
    /\ pc' = "split"
    /\ test_blocks' = <<>>
    /\ lines' = <<>>
    /\ test_key' = <<>>
    /\ test_data' = NoTestData
    /\ data' = NewData(Head(upload.files).name)
    /\ date_set' = FALSE
    /\ result' = "none"
    /\ UNCHANGED <<uploaded_files, session_state, analysisVars, selection>>

\* the file stops the loop as soon as it fails
AfterFile_Abort(failed, files) == IF failed THEN <<>> ELSE Tail(files)

\* the for loop of line 88 goes on to the next file, failed or not
AfterFile(failed, files) == Tail(files)

\* lines 91 to 102: the parser has returned or raised
UploadParsed ==
    /\ upload.pc = "parsing"
    /\ pc \in {"returned", "raised"}
    /\ LET file == Head(upload.files)
           parsed == data
       IN  upload' =
              IF result = "doc"
              THEN [upload EXCEPT
                      !.pc = "loop",
                      !.files = AfterFile(FALSE, upload.files),
                      !.all_parsed_data = Append(upload.all_parsed_data, parsed),
                      !.all_test_conditions =
                          upload.all_test_conditions \cup DOMAIN parsed.tests,
                      !.all_metrics =
                          upload.all_metrics
                          \cup UNION {DOMAIN parsed.tests[t].metrics : t \in DOMAIN parsed.tests}]
              ELSE [upload EXCEPT
                      !.pc = "loop",
                      !.files = AfterFile(TRUE, upload.files),
                      !.parse_errors = Append(upload.parse_errors,
                          [file |-> file.name,
                           error |-> IF result = "null" THEN "no data" ELSE "exception"])]
    /\ content' = <<>>
    /\ pc' = "idle"
    /\ test_blocks' = <<>>
    /\ lines' = <<>>
    /\ test_key' = <<>>
    /\ test_data' = NoTestData
    /\ data' = NewData("")
    /\ date_set' = FALSE
    /\ result' = "none"
    /\ UNCHANGED <<uploaded_files, session_state, analysisVars, selection>>

\* lines 104 to 118: after the last file
UploadStore ==
    /\ upload.pc = "loop"
    /\ upload.files = <<>>
    /\ session_state' =
          IF upload.all_parsed_data # <<>>
          THEN [session_state EXCEPT
                  !.all_parsed_data = SortByDate(upload.all_parsed_data),
                  !.all_metrics = Sorted(upload.all_metrics),
                  !.all_test_conditions = Sorted(upload.all_test_conditions)]
          ELSE session_state
    /\ upload' = [upload EXCEPT !.pc = "idle"]
    /\ UNCHANGED <<uploaded_files, parserVars, analysisVars, selection>>

\* ------------------------------------------------------------------------
\* The selection and the interpretation of app.py (lines 67 and 123 to 253).
\* The script is run once for each thing the user does, from its first line
\* to its last, and st.rerun() starts it again at once with the same values
\* of the widgets; the runs of one session follow one another.
\* ------------------------------------------------------------------------
\* line 129: the two options of the radio
MODE_METRIC == "Metric Comparison (Bar Chart)"
MODE_RADAR == "Comprehensive View (Radar Chart)"

\* analysis.py lines 6 to 14: RADAR_KEY_METRICS_CONFIG.keys(), in the order
\* of the dict
RADAR_KEYS ==
    <<KM_StabilityScore, KM_SwayPathLength, KM_SwayVelocityAve, KM_Area95,
      KM_FatigueRatio, KM_AdaptationRatio, KM_Directionality>>

\* the elements of a list
Elements(s) == {s[k] : k \in 1..Len(s)}

\* analysis.py lines 16 to 20: get_default_metric_index, counted from 1
get_default_metric_index(all_metrics) ==
    IF KM_StabilityScore \in Elements(all_metrics)
    THEN SetMin({k \in 1..Len(all_metrics) : all_metrics[k] = KM_StabilityScore})
    ELSE 1

\* lines 158 to 160: the metrics that get a checkbox
MetricsToShow(all_metrics) ==
    SelectSeq(RADAR_KEYS, LAMBDA m : m \in Elements(all_metrics))

\* lines 156 and 162 to 165: the metrics whose checkbox is checked
SelectedRadarMetrics(metrics_to_show, checked) ==
    SelectSeq(metrics_to_show, LAMBDA m : m \in checked)

\* lines 181 and 182: an analysis that was made becomes the current one
StoreAnalysis(state, made) ==
    IF made # NoAnalysis
    THEN [state EXCEPT !.current_analysis = made]
    ELSE state

\* a run of the script gets as far as the selection (line 123) and no
\* request for an interpretation is being served
SelectionDrawn ==
    /\ upload.pc = "idle"
    /\ session_state.all_parsed_data # <<>>
    /\ ~session_state.generating_ai

\* lines 133 to 147 and 181 to 182: a run in which the radio is on the bar
\* chart and the selectbox on selected_metric
RunMetric(selected_metric) ==
    /\ selection' = [analysis_mode |-> MODE_METRIC,
                     selected_metric |-> selected_metric]
    /\ session_state' =
          StoreAnalysis(session_state,
              AnalyzeMetric(selected_metric, session_state.all_parsed_data))
    /\ UNCHANGED <<uploaded_files, upload, parserVars, analysisVars>>

\* line 115: the run that st.rerun() starts when documents were stored; the
\* keys of the widgets were deleted, so each widget has its default value
Rerun ==
    /\ SelectionDrawn
    /\ selection = NoSelection
    /\ RunMetric(session_state.all_metrics[
                    get_default_metric_index(session_state.all_metrics)])

\* the user picks a metric (or turns the radio to the bar chart)
SelectMetric(selected_metric) ==
    /\ SelectionDrawn
    /\ selection # NoSelection
    /\ selected_metric \in Elements(session_state.all_metrics)
    /\ RunMetric(selected_metric)

\* lines 148 to 182: the user turns the radio to the radar chart, picks a
\* test condition, checks or unchecks a metric, or toggles the normalizing
SelectRadar(selected_test, checked, normalize_radar) ==
    /\ SelectionDrawn
    /\ selection # NoSelection
    /\ selected_test \in Elements(session_state.all_test_conditions)
    /\ LET metrics_to_show == MetricsToShow(session_state.all_metrics)
           selected_radar_metrics == SelectedRadarMetrics(metrics_to_show, checked)
           made == IF selected_radar_metrics # <<>>
                   THEN AnalyzeRadar(selected_test, selected_radar_metrics,
                                     session_state.all_parsed_data, normalize_radar)
                   ELSE NoAnalysis
           drawn == [session_state EXCEPT !.normalize_radar = normalize_radar]
       IN  /\ checked \subseteq Elements(metrics_to_show)
           /\ selection' = [analysis_mode |-> MODE_RADAR,
                            selected_test |-> selected_test,
                            selected_radar_metrics |-> selected_radar_metrics,
                            normalize_radar |-> normalize_radar]
           /\ session_state' =
                 IF made = Raised THEN drawn ELSE StoreAnalysis(drawn, made)
    /\ UNCHANGED <<uploaded_files, upload, parserVars, analysisVars>>

\* lines 67 and 46 to 53, then lines 74 to 85 of the run that follows: the
\* button "Reset and Clear All"; the uploader keeps its files, whose names
\* are no longer the names handled last
ResetAndClear ==
    /\ upload.pc = "idle"
    /\ ~session_state.generating_ai
    /\ selection' = NoSelection
    /\ IF uploaded_files # <<>>
       THEN /\ session_state' =
                 [SESSION_STATE_FACTORIES EXCEPT
                     !.uploaded_file_names =
                         [i \in 1..Len(uploaded_files) |-> uploaded_files[i].name]]
            /\ upload' = [NoUpload EXCEPT !.pc = "loop", !.files = uploaded_files]
       ELSE /\ session_state' = SESSION_STATE_FACTORIES
            /\ upload' = NoUpload
    /\ UNCHANGED <<uploaded_files, parserVars, analysisVars>>

\* lines 184 to 221: the button "Generate Interpretation" is drawn
ButtonDrawn ==
    /\ upload.pc = "idle"
    /\ session_state.all_parsed_data # <<>>
    /\ session_state.current_analysis # NoAnalysis

\* lines 223, 230 to 232, 247 and 250: the texts of the interpretation
GENERATING_MESSAGE == "Generating... Please wait."
KEY_ERROR_MESSAGE == "Error: GEMINI_API_KEY not found in st.secrets. Please add it."
ErrorMessage(e) == "An error occurred: " \o e

\* lines 221 to 224: the button is clicked; disabled=generating_ai
ClickGenerate ==
    /\ ButtonDrawn
    /\ ~session_state.generating_ai
    /\ session_state' = [session_state EXCEPT
                            !.generating_ai = TRUE,
                            !.interpretation = GENERATING_MESSAGE]
    /\ UNCHANGED <<uploaded_files, upload, selection, parserVars, analysisVars>>

\* what the external call can do: there is no key and it is not made, it
\* returns a text, it throws, it times out (the library throws)
NO_KEY == [kind |-> "no key"]
Returns(text) == [kind |-> "text", text |-> text]
Throws(e) == [kind |-> "exception", e |-> e]

\* lines 228 to 250: the interpretation the try statement leaves
InterpretationAfter(outcome) ==
    IF outcome.kind = "no key" THEN KEY_ERROR_MESSAGE
    ELSE IF outcome.kind = "text" THEN outcome.text
    ELSE ErrorMessage(outcome.e)

\* the flag when only the paths that end well clear it
GeneratingAfter_NoFinally(outcome) == outcome.kind = "exception"

\* lines 233 and 251 to 252: the flag after the try statement; st.rerun()
\* of line 234 raises no Exception, so the finally clause is what follows it
GeneratingAfter(outcome) == FALSE

\* lines 226 to 253: the run that line 224 started serves the request
GenerateInterpretation(outcome) ==
    /\ ButtonDrawn
    /\ session_state.generating_ai
    /\ session_state' = [session_state EXCEPT
                            !.interpretation = InterpretationAfter(outcome),
                            !.generating_ai = GeneratingAfter(outcome)]
    /\ UNCHANGED <<uploaded_files, upload, selection, parserVars, analysisVars>>

\* ------------------------------------------------------------------------
\* The texts the parser is run on
\* ------------------------------------------------------------------------
\* the delimiter that opens a block, and a first block with nothing before it
D_Test1 == <<"T","e","s","t"," ","1",":"," ">>
D_Test12 == <<"T","e","s","t"," ","1","2",":"," ">>
\* header lines
H_NSEO == <<"S","e","n","s","o","r","y"," ","O","r","g","a","n","i","z","a","t","i","o","n"," ","(","N","S","E","O",")">>
H_FECR == <<"F","o","a","m"," ","E","y","e","s"," ","C","l","o","s","e","d"," ","R","t"," ","(","F","E","C","R",")">>
H_Quiet == <<"Q","u","i","e","t"," ","s","t","a","n","c","e",":"," ","e","y","e","s"," ","o","p","e","n">>
H_Empty == <<>>
\* the field lines of a block
B_DateScore == <<"*"," ","T","e","s","t"," ","D","a","t","e",":"," ","3","/","1","4","/","2","0","2","1",NL,"*"," ","S","t","a","b","i","l","i","t","y"," ","S","c","o","r","e",":"," ","8","7",".","5",NL>>
B_BadDateThenDate == <<"*"," ","T","e","s","t"," ","D","a","t","e",":"," ","1","3","/","1","/","2","0","2","0",NL,"*"," ","T","e","s","t"," ","D","a","t","e",":"," ","1","2","/","2","5","/","2","0","1","9",NL,"*"," ","S","w","a","y"," ","P","a","t","h"," ","L","e","n","g","t","h",":"," ","1","2",NL>>
B_NoMetric == <<"C","o","m","m","e","n","t"," ","l","i","n","e",NL,"*"," ","O","p","e","r","a","t","o","r",NL>>
B_BadNumber == <<"*"," ","S","t","a","b","i","l","i","t","y"," ","S","c","o","r","e",":"," ","9","0",NL,"*"," ","F","a","t","i","g","u","e"," ","R","a","t","i","o",":"," ","1",".","2",".","3",NL,"*"," ","A","d","a","p","t","a","t","i","o","n"," ","R","a","t","i","o",":"," ","2",NL>>
B_DateOnly == <<"*"," ","T","e","s","t"," ","D","a","t","e",":"," ","2","/","2","9","/","2","0","2","0",NL>>
B_Class == <<"*"," ","S","t","a","b","i","l","i","t","y"," ","C","l","a","s","s",":"," ","N","o","r","m","a","l"," ","|"," ","2",NL,"*"," ","T","e","s","t"," ","D","a","t","e",":"," ","2","/","3","0","/","2","0","2","1",NL>>
\* texts with no  Test <integer>:<space>  delimiter
T_Empty == <<>>
T_Report == <<"B","a","l","a","n","c","e"," ","r","e","p","o","r","t",NL,"*"," ","S","t","a","b","i","l","i","t","y"," ","S","c","o","r","e",":"," ","8","7",".","5",NL>>
T_NoInteger == <<"T","e","s","t"," ","O","n","e",":"," ","S","e","n","s","o","r","y"," ","O","r","g","a","n","i","z","a","t","i","o","n"," ","(","N","S","E","O",")",NL,"*"," ","S","t","a","b","i","l","i","t","y"," ","S","c","o","r","e",":"," ","8","7",".","5",NL>>
T_NoSpace == <<"T","e","s","t"," ","1",":",NL,"*"," ","S","t","a","b","i","l","i","t","y"," ","S","c","o","r","e",":"," ","8","7",".","5",NL>>
\* the parts a field line is put together from
K_SwayCenter == <<"S","w","a","y"," ","C","e","n","t","e","r">>
K_SwayCenterAP == <<"A","P"," ","S","w","a","y"," ","C","e","n","t","e","r">>
K_SwayArea95 == <<"S","w","a","y"," ","A","r","e","a"," ","(","M","a","x"," ","&"," ","9","5","%",")">>
K_SwayVelocityAve == <<"S","w","a","y"," ","V","e","l","o","c","i","t","y"," ","(","M","a","x"," ","&"," ","A","v","e",")">>
K_SwayRangeMin == <<"S","w","a","y"," ","R","a","n","g","e"," ","(","M","a","x"," ","&"," ","M","i","n",")">>
K_StabilityScore == <<"S","t","a","b","i","l","i","t","y"," ","S","c","o","r","e">>
U_None == <<>>
U_M == <<" ","m">>
U_M2 == <<" ","m",SUP2>>
U_MS == <<" ","m","/","s">>
U_MS2 == <<" ","m","/","s",SUP2>>
N_Second == <<"-","2",".","3">>
N_Example == <<"3",".","2">>
L_Star == <<"*"," ">>
L_Bracket == <<"[">>
L_MComma == <<" ","m",","," ">>
L_MClose == <<" ","m","]">>
L_Score == <<"*"," ","S","t","a","b","i","l","i","t","y"," ","S","c","o","r","e",":"," ","8","7",".","5",NL>>
\* the parts a header line is put together from
P_Foam == <<"F","o","a","m"," ","E","y","e","s"," ","C","l","o","s","e","d">>
P_Rt == <<" ","R","t">>
P_FECR == <<" ","(","F","E","C","R",")">>
P_NSEO == <<"N","S","E","O">>
P_Colon == <<":">>
P_Dash == <<"-">>
P_Lower == <<" ","(","a","b","c","d",")">>
P_X == <<"X">>

\* the concatenation of a sequence of texts
RECURSIVE Cat(_)
Cat(ss) == IF ss = <<>> THEN <<>> ELSE Head(ss) \o Cat(Tail(ss))

\* every sequence of at most n elements of S
SeqsUpTo(S, n) == UNION {[1..k -> S] : k \in 0..n}

\* Documents of blocks: at most MaxBlocks blocks, each a delimiter, a header
\* line and the field lines of one of the bodies.
MaxBlocks == 2
Openers == {D_Test1 \o H_NSEO, D_Test12 \o H_Quiet, D_Test1 \o H_Empty}
Bodies == {B_DateScore, B_BadDateThenDate, B_NoMetric, B_BadNumber, B_DateOnly, B_Class}
Blocks == {o \o <<NL>> \o b : o \in Openers, b \in Bodies}
NoDelimiterTexts == {T_Empty, T_Report, T_NoInteger, T_NoSpace}
BlockTexts == {Cat(bs) : bs \in SeqsUpTo(Blocks, MaxBlocks) \ {<<>>}} \cup NoDelimiterTexts

\* Documents of one block with one score line and one more field line, whose
\* key is one of FieldKeys and whose value is a numeric token, a bracketed
\* pair or an "&" pair with a unit; the tokens are all the strings of at most
\* MaxTokLen characters of TokAlphabet, well formed or not.
MaxTokLen == 3
TokAlphabet == {"1", "5", ".", "-"}
Toks == (SeqsUpTo(TokAlphabet, MaxTokLen) \ {<<>>}) \cup {N_Example}
Units == {U_None, U_M, U_M2, U_MS, U_MS2}
FieldKeys == {K_SwayCenter, K_SwayCenterAP, K_SwayArea95, K_SwayVelocityAve,
              K_SwayRangeMin, K_StabilityScore, S_StabilityClass}
FieldValues ==
    Toks
    \cup {L_Bracket \o t \o L_MComma \o N_Second \o L_MClose : t \in Toks}
    \cup {t \o u \o S_Amp \o N_Second \o u : t \in Toks, u \in Units}
FieldLines == {L_Star \o k \o S_ColonSp \o v \o <<NL>> : k \in FieldKeys, v \in FieldValues}
FieldTexts == {D_Test1 \o H_NSEO \o <<NL>> \o L_Score \o l : l \in FieldLines}

\* Documents of one block whose header line is put together from at most
\* MaxHdrParts of HdrParts, followed by one score line.
MaxHdrParts == 3
HdrParts == {P_Foam, P_Rt, P_FECR, P_NSEO, P_Colon, P_Dash, P_Lower, P_X}
HeaderLines == {Cat(ps) : ps \in SeqsUpTo(HdrParts, MaxHdrParts)}
HeaderTexts == {D_Test1 \o h \o <<NL>> \o L_Score : h \in HeaderLines}

\* Documents for the analysis functions: at most MaxDocs documents, each
\* with the tests of one of Profiles, named by their place in the list; the
\* radar is asked for at most MaxSel metrics.
MaxDocs == 3
MaxSel == 2
TK_NSEO == <<"N","S","E","O">>
TK_FECR_Rt == <<"F","E","C","R"," ","R","t">>
KM_SwayCenterXo == S_SwayCenter \o S_Xo
V_Good == <<"G","o","o","d">>
F(m, e) == FloatVal(Norm(m, e))
TestOf(name, metrics) == [fullName |-> name, metrics |-> metrics]
Profiles ==
    { (TK_NSEO :> TestOf(H_NSEO, (KM_StabilityScore :> F(10, 0)) @@ (KM_SwayPathLength :> F(5, 1)))),
      (TK_NSEO :> TestOf(H_NSEO, (KM_StabilityScore :> F(15, 0)) @@ (KM_SwayPathLength :> F(125, 2))
                                 @@ (KM_SwayCenterXo :> F(0 - 23, 1))))
        @@ (TK_FECR_Rt :> TestOf(H_FECR, (KM_StabilityScore :> F(0, 0)))),
      (TK_NSEO :> TestOf(H_NSEO, (KM_StabilityScore :> F(0, 0)) @@ (KM_SwayPathLength :> F(625, 4))
                                 @@ (KM_SwayCenterXo :> F(15, 1)))),
      (TK_FECR_Rt :> TestOf(H_FECR, (KM_StabilityScore :> F(85, 1)) @@ (S_StabilityClass :> StrVal(V_Good)))) }
DocNames == <<"a.txt", "b.txt", "c.txt", "d.txt", "e.txt", "f.txt">>
DocLists ==
    {[i \in 1..k |-> [fileName |-> DocNames[i], date |-> NOW, tests |-> ps[i]]] :
        <<k, ps>> \in {q \in (1..MaxDocs) \X SeqsUpTo(Profiles, MaxDocs) : Len(q[2]) = q[1]}}

\* Uploads: at most MaxFiles files at a time, each with one of two names
\* and either bytes that are no text or one of UploadTexts: two documents
\* (the second with the earlier date), a text without a test (parse returns
\* None) and a text with a malformed number (parse raises).
MaxFiles == 2
G_Dated2021 == <<"T","e","s","t"," ","1",":"," ","S","e","n","s","o","r","y"," ","O","r","g","a","n","i","z","a","t","i","o","n"," ","(","N","S","E","O",")",NL,"*"," ","T","e","s","t"," ","D","a","t","e",":"," ","3","/","1","4","/","2","0","2","1",NL,"*"," ","S","t","a","b","i","l","i","t","y"," ","S","c","o","r","e",":"," ","8","7",".","5",NL>>
G_Dated2019 == <<"T","e","s","t"," ","1","2",":"," ","Q","u","i","e","t"," ","s","t","a","n","c","e",":"," ","e","y","e","s"," ","o","p","e","n",NL,"*"," ","T","e","s","t"," ","D","a","t","e",":"," ","1","3","/","1","/","2","0","2","0",NL,"*"," ","T","e","s","t"," ","D","a","t","e",":"," ","1","2","/","2","5","/","2","0","1","9",NL,"*"," ","S","w","a","y"," ","P","a","t","h"," ","L","e","n","g","t","h",":"," ","1","2",NL>>
UploadTexts == {G_Dated2021, G_Dated2019, T_Report, D_Test1 \o H_NSEO \o <<NL>> \o B_BadNumber}
UploadNames == {"a.txt", "b.txt"}
Files ==
    {[name |-> nm, text |-> t, utf8 |-> TRUE] : nm \in UploadNames, t \in UploadTexts}
    \cup {[name |-> nm, text |-> <<>>, utf8 |-> FALSE] : nm \in UploadNames}
Batches == SeqsUpTo(Files, MaxFiles)

F_Name == "a.txt"

vars == <<parserVars, analysisVars, uploadVars, selection>>

\* every list of at most n distinct elements of S
Selections(S, n) ==
    {sel \in SeqsUpTo(S, n) : \A a, b \in 1..Len(sel) : sel[a] = sel[b] => a = b}

\* analyze_metric_data called, once, for one of the metrics of the documents
CallAnalyzeMetric ==
    /\ call = NoCall
    /\ \E metric \in MetricsOf(all_parsed_data) :
          /\ call' = [fn |-> "metric", metric |-> metric]
          /\ analysis' = AnalyzeMetric(metric, all_parsed_data)
    /\ UNCHANGED <<all_parsed_data, parserVars, uploadVars, selection>>

\* analyze_radar_data called, once, for one of the tests and a list of the
\* metrics of the documents
CallAnalyzeRadar ==
    /\ call = NoCall
    /\ \E test \in TestsOf(all_parsed_data),
          metrics \in Selections(MetricsOf(all_parsed_data), MaxSel),
          normalize \in BOOLEAN :
          /\ call' = [fn |-> "radar", test |-> test, metrics |-> metrics,
                      normalize |-> normalize]
          /\ analysis' = AnalyzeRadar(test, metrics, all_parsed_data, normalize)
    /\ UNCHANGED <<all_parsed_data, parserVars, uploadVars, selection>>

AnalysisNext == CallAnalyzeMetric \/ CallAnalyzeRadar

UploadNext ==
    \/ \E files \in Batches : UploadFiles(files)
    \/ UploadDecodeError
    \/ UploadCallParser
    \/ ParseNext
    \/ UploadParsed
    \/ UploadStore

\* what the interpretation service does when it is called
ServiceOutcomes ==
    {NO_KEY, Returns("The stability score improved."), Throws("exception"),
     Throws("timeout")}

Serve == \E outcome \in ServiceOutcomes : GenerateInterpretation(outcome)

\* Sessions: the uploader is given at most MaxFiles of four files: a.txt
\* with one document or with another, b.txt with the second document or
\* with bytes that are no text. The files of a batch have different names
\* (a comparison needs a fileName to be unique).
AppFiles ==
    {[name |-> "a.txt", text |-> G_Dated2021, utf8 |-> TRUE],
     [name |-> "a.txt", text |-> G_Dated2019, utf8 |-> TRUE],
     [name |-> "b.txt", text |-> G_Dated2019, utf8 |-> TRUE],
     [name |-> "b.txt", text |-> <<>>, utf8 |-> FALSE]}
AppBatches == Selections(AppFiles, MaxFiles) \cap {b \in SeqsUpTo(AppFiles, MaxFiles) :
                  \A i, j \in 1..Len(b) : b[i].name = b[j].name => i = j}

AppNext ==
    \/ \E files \in AppBatches : UploadFiles(files)
    \/ UploadDecodeError
    \/ UploadCallParser
    \/ ParseNext
    \/ UploadParsed
    \/ UploadStore
    \/ Rerun
    \/ \E selected_metric \in Elements(session_state.all_metrics) :
          SelectMetric(selected_metric)
    \/ \E selected_test \in Elements(session_state.all_test_conditions),
          checked \in SUBSET Elements(MetricsToShow(session_state.all_metrics)),
          normalize_radar \in BOOLEAN :
          SelectRadar(selected_test, checked, normalize_radar)
    \/ ResetAndClear
    \/ ClickGenerate
    \/ Serve

InitBlocks == (\E c \in BlockTexts : ParseEntry(c, F_Name)) /\ AnalysisIdle(<<>>) /\ UploadIdle
InitField == (\E c \in FieldTexts : ParseEntry(c, F_Name)) /\ AnalysisIdle(<<>>) /\ UploadIdle
InitHeader == (\E c \in HeaderTexts : ParseEntry(c, F_Name)) /\ AnalysisIdle(<<>>) /\ UploadIdle
InitAnalysis == ParserIdle /\ UploadIdle /\ \E docs \in DocLists : AnalysisIdle(docs)
InitUpload == ParserIdle /\ UploadIdle /\ AnalysisIdle(<<>>)

SpecParse == InitBlocks /\ [][ParseNext]_vars
SpecField == InitField /\ [][ParseNext]_vars
SpecHeader == InitHeader /\ [][ParseNext]_vars
SpecAnalysis == InitAnalysis /\ [][AnalysisNext]_vars
SpecUpload == InitUpload /\ [][UploadNext]_vars
\* the run that line 224 starts is made: st.rerun() leaves nothing to wait for
SpecApp == InitUpload /\ [][AppNext]_vars /\ WF_vars(Serve)

\* ------------------------------------------------------------------------
\* Claims about the parser
\* ------------------------------------------------------------------------
\* the field line the parser is about to read, stripped
AtLine == pc = "line" /\ lines # <<>>
ThisLine == Strip(Head(lines))

\* "* <key>: [<x> m, <y> m]"
BracketLine(key, x, y) ==
    L_Star \o key \o S_ColonSp \o L_Bracket \o x \o L_MComma \o y \o L_MClose

\* "* <key>: <a><unit> & <b><unit>"
PairLine(key, a, b, u) == L_Star \o key \o S_ColonSp \o a \o u \o S_Amp \o b \o u

\* metric names of the qualified keys, as the specification spells them
M_SwayAreaMax == <<"S","w","a","y"," ","A","r","e","a"," ","(","M","a","x",")">>
M_SwayArea95 == <<"S","w","a","y"," ","A","r","e","a"," ","(","9","5","%",")">>
M_SwayVelocityMax == <<"S","w","a","y"," ","V","e","l","o","c","i","t","y"," ","(","M","a","x",")">>
M_SwayVelocityAve == <<"S","w","a","y"," ","V","e","l","o","c","i","t","y"," ","(","A","v","e",")">>
M_SwayRangeMax == <<"S","w","a","y"," ","R","a","n","g","e"," ","(","M","a","x",")">>
M_SwayRangeMin == <<"S","w","a","y"," ","R","a","n","g","e"," ","(","M","i","n",")">>
X_FECR_Rt == <<"F","E","C","R"," ","R","t">>

QualifiedKeys == {K_SwayArea95, K_SwayVelocityAve, K_SwayRangeMin}
FirstName(key) ==
    CASE key = K_SwayArea95 -> M_SwayAreaMax
      [] key = K_SwayVelocityAve -> M_SwayVelocityMax
      [] key = K_SwayRangeMin -> M_SwayRangeMax
SecondName(key) ==
    CASE key = K_SwayArea95 -> M_SwayArea95
      [] key = K_SwayVelocityAve -> M_SwayVelocityAve
      [] key = K_SwayRangeMin -> M_SwayRangeMin

\* line = pre \o mid \o suf
HasAffixes(line, pre, suf) ==
    /\ Len(line) >= Len(pre) + Len(suf)
    /\ StartsWith(line, pre)
    /\ StartsWithAt(line, Len(line) - Len(suf) + 1, suf)
Mid(line, pre, suf) == SubSeq(line, Len(pre) + 1, Len(line) - Len(suf))

\* C1: a field line "* <key>: [<x> m, <y> m]" whose key contains
\* "Sway Center" adds exactly the two metrics "<key> Xo" = x and
\* "<key> Yo" = y to the metrics of its test, and no metric named <key>.
C1_SwayCenterPair ==
    [][AtLine
        => \A key \in {K_SwayCenter, K_SwayCenterAP} :
              LET pre == L_Star \o key \o S_ColonSp \o L_Bracket
                  suf == L_MComma \o N_Second \o L_MClose
                  x == Mid(ThisLine, pre, suf)
              IN  (HasAffixes(ThisLine, pre, suf) /\ FloatOk(x))
                  => /\ ThisLine = BracketLine(key, x, N_Second)
                     /\ pc' = "line"
                     /\ test_data'.metrics =
                          Put(Put(test_data.metrics, key \o S_Xo, FloatVal(ToFloat(x))),
                              key \o S_Yo, FloatVal(ToFloat(N_Second)))
                     /\ key \notin DOMAIN test_data'.metrics]_vars

\* C2: a field line whose key carries (Max & 95%), (Max & Ave) or (Max & Min)
\* and whose value is two numbers separated by "&", each with no unit or with
\* the unit m, m², m/s or m/s², adds exactly the two metrics
\* "<key-root> (<label1>)" and "<key-root> (<label2>)" holding the first and
\* the second number.
C2_QualifiedPair ==
    [][AtLine
        => \A key \in QualifiedKeys, u \in Units :
              LET pre == L_Star \o key \o S_ColonSp
                  suf == u \o S_Amp \o N_Second \o u
                  a == Mid(ThisLine, pre, suf)
              IN  (HasAffixes(ThisLine, pre, suf) /\ FloatOk(a))
                  => /\ ThisLine = PairLine(key, a, N_Second, u)
                     /\ pc' = "line"
                     /\ test_data'.metrics =
                          Put(Put(test_data.metrics, FirstName(key), FloatVal(ToFloat(a))),
                              SecondName(key), FloatVal(ToFloat(N_Second)))]_vars

\* a field line "* <key>: <value>" whose value starts with a numeric token
\* that float() does not accept
MalformedNumberLine(line) ==
    /\ StartsWith(line, <<"*">>)
    /\ ~StartsWith(line, S_StarTestDate)
    /\ Len(Split1(SubSeq(line, 2, Len(line)), <<":">>)) = 2
    /\ LET value == Strip(Split1(SubSeq(line, 2, Len(line)), <<":">>)[2])
       IN  NumericMatch(value).ok /\ ~FloatOk(NumericMatch(value).g1)

\* C3: a field line whose numeric token cannot be converted to a float only
\* skips that metric: the parser does not raise, keeps the metrics, the tests
\* and the date it has, and goes on with the next line.
C3_MalformedNumberSkipped ==
    [][(AtLine /\ MalformedNumberLine(ThisLine))
        => /\ pc' = "line"
           /\ result' = result
           /\ test_data' = test_data
           /\ data' = data]_vars

\* the text holds a delimiter  Test <integer>:<space>
HasDelimiter(text) ==
    \E i \in 1..Len(text), j \in 1..Len(text) :
        /\ i <= j
        /\ StartsWithAt(text, i - 5, S_TestSp)
        /\ \A k \in i..j : text[k] \in Digits
        /\ StartsWithAt(text, j + 1, S_ColonSp)

\* C4: parse returns null when the text has no delimiter or when no block is
\* retained; a returned Document has at least one TestRecord; every
\* TestRecord has a non-empty metrics mapping; a block with no metrics is
\* dropped without removing the blocks retained before it.
C4_NullOrNonEmpty ==
    /\ [](/\ (pc = "returned" /\ ~HasDelimiter(content)) => result = "null"
          /\ pc = "returned" => (result = "null" <=> DOMAIN data.tests = {})
          /\ result = "doc" => DOMAIN data.tests # {}
          /\ \A k \in DOMAIN data.tests : DOMAIN data.tests[k].metrics # {})
    /\ [][(pc = "line" /\ lines = <<>> /\ DOMAIN test_data.metrics = {})
          => data'.tests = data.tests]_vars

\* a Document is returned although one of its blocks had no metric
C4_Witness ==
    /\ pc = "returned"
    /\ result = "doc"
    /\ Contains(content, B_NoMetric)
    /\ Cardinality(DOMAIN data.tests) = 1

\* the header line of a block: its first line, stripped
HeaderOf(block) == Strip(Split(block, <<NL>>)[1])

\* j is the last index of a description followed by " (<4 uppercase letters>)"
AcronymAfter(h, j) ==
    /\ At(h, j) \in WordSpaceCh
    /\ At(h, j + 1) = " "
    /\ At(h, j + 2) = "("
    /\ \A k \in 3..6 : At(h, j + k) \in Upper
    /\ At(h, j + 7) = ")"

\* the description that ends at j: the letters, digits and spaces before it
DescriptionTo(h, j) ==
    LET other == {k \in 1..j : h[k] \notin WordSpaceCh}
    IN  Strip(SubSeq(h, IF other = {} THEN 1 ELSE SetMax(other) + 1, j))

LastWord(d) ==
    LET sp == {k \in 1..Len(d) : d[k] = " "}
    IN  IF sp = {} THEN d ELSE SubSeq(d, SetMax(sp) + 1, Len(d))

\* the test key the precedence rules give a header line
ClaimedKey(h) ==
    LET acr == {j \in 1..Len(h) : AcronymAfter(h, j)}
        body == IF At(h, Len(h)) = ":" THEN SubSeq(h, 1, Len(h) - 1) ELSE h
        n == Len(body)
        colons == {k \in 1..Len(h) : h[k] = ":"}
    IN  IF acr # {}
        THEN LET j == SetMin(acr)
                 d == DescriptionTo(h, j)
                 a == SubSeq(h, j + 3, j + 6)
             IN  IF StartsWith(d, S_FoamEyesClosed) THEN a \o <<" ">> \o LastWord(d) ELSE a
        ELSE IF n >= 4 /\ \A k \in (n - 3)..n : body[k] \in Upper
        THEN SubSeq(body, n - 3, n)
        ELSE IF colons = {} THEN Strip(h)
        ELSE Strip(SubSeq(h, 1, SetMin(colons) - 1))

DateOfLine(l) == Strptime(DateMatch(Strip(l)))
IsGoodDateLine(l) ==
    /\ StartsWith(Strip(l), S_StarTestDate)
    /\ DateMatch(Strip(l)).ok
    /\ StrptimeOk(DateMatch(Strip(l)))
IsBadDateLine(l) ==
    /\ StartsWith(Strip(l), S_StarTestDate)
    /\ DateMatch(Strip(l)).ok
    /\ ~StrptimeOk(DateMatch(Strip(l)))
RECURSIVE DatesOfLines(_)
DatesOfLines(ls) ==
    IF ls = <<>> THEN <<>>
    ELSE (IF IsGoodDateLine(Head(ls)) THEN <<DateOfLine(Head(ls))>> ELSE <<>>)
         \o DatesOfLines(Tail(ls))
RECURSIVE DatesOfBlocks(_, _)
DatesOfBlocks(blocks, keyedOnly) ==
    IF blocks = <<>> THEN <<>>
    ELSE (IF keyedOnly /\ ClaimedKey(HeaderOf(Head(blocks))) = <<>> THEN <<>>
          ELSE DatesOfLines(Tail(Split(Head(blocks), <<NL>>))))
         \o DatesOfBlocks(Tail(blocks), keyedOnly)
FirstOr(ds, none) == IF ds = <<>> THEN none ELSE ds[1]

\* C6 as claimed: the date of a returned Document is the date of the first
\* well-formed Test Date line of all the blocks of the text (the processing
\* time when there is none).
C6_FirstDateOfAllBlocks ==
    result = "doc"
    => data.date = FirstOr(DatesOfBlocks(Tail(ReSplitTest(content)), FALSE), NOW)

\* C6 as amended: the date of a returned Document is the date of the first
\* well-formed Test Date line of the blocks that have a test key; once set
\* the date never changes; a malformed date line changes nothing and raises
\* nothing.
C6_FirstScannedDateWins ==
    /\ [](result = "doc"
          => data.date = FirstOr(DatesOfBlocks(Tail(ReSplitTest(content)), TRUE), NOW))
    /\ [][date_set => (date_set' /\ data'.date = data.date)]_vars
    /\ [][(AtLine /\ IsBadDateLine(Head(lines)))
          => (data' = data /\ date_set' = date_set /\ pc' = "line"
              /\ result' = result /\ test_data' = test_data)]_vars

\* a Document whose blocks hold two different well-formed dates has the first
C6_Witness ==
    /\ pc = "returned"
    /\ result = "doc"
    /\ LET ds == DatesOfBlocks(Tail(ReSplitTest(content)), TRUE)
       IN  Len(ds) >= 2 /\ ds[1] # ds[2] /\ data.date = ds[1]

\* ------------------------------------------------------------------------
\* Claims about the analysis functions
\* ------------------------------------------------------------------------
\* document i has a value for the metric at the test, and the number it is
DocHas(i, test, metric) ==
    /\ test \in DOMAIN all_parsed_data[i].tests
    /\ metric \in DOMAIN all_parsed_data[i].tests[test].metrics
RawOf(i, test, metric) ==
    LET v == all_parsed_data[i].tests[test].metrics[metric]
    IN  Rat(v.m, Pow10(v.e))

\* the low-is-better entries of the orientation table of section 4.2
LowIsBetter ==
    {KM_SwayPathLength, KM_SwayVelocityAve, KM_Area95, KM_FatigueRatio,
     KM_Directionality}
Clamp01(x) ==
    IF x.n < 0 THEN Rat(0, 1) ELSE IF x.n > x.d THEN Rat(1, 1) ELSE x
Times100(x) == Rat(100 * x.n, x.d)

NormalizedRadar ==
    /\ call.fn = "radar"
    /\ analysis.type = "radar"
    /\ call.metrics # <<>>
    /\ call.normalize

\* the value shown for document i at metric j, and the value claimed for it
Shown(i, j) == analysis.fig.data[i].r[j]
ClaimedDisplay(i, j) ==
    LET metric == call.metrics[j]
        have == {RawOf(k, call.test, metric) :
                    k \in {h \in 1..Len(all_parsed_data) : DocHas(h, call.test, metric)}}
        lo == CHOOSE x \in have : \A y \in have : ~RLess(y, x)
        hi == CHOOSE x \in have : \A y \in have : ~RLess(x, y)
        ratio == RDiv(RSub(RawOf(i, call.test, metric), lo), RSub(hi, lo))
    IN  IF hi = lo THEN Rat(100, 1)
        ELSE IF metric \in LowIsBetter
        THEN Times100(Clamp01(RSub(Rat(1, 1), ratio)))
        ELSE Times100(Clamp01(ratio))

\* C7: when analyze_radar_data normalizes, the value displayed for a metric
\* and a document that has a value v for it is 100 if the max and the min
\* over the documents with a value are equal, else 100 * clamp01((v - min) /
\* (max - min)) for a high-is-better metric and 100 * clamp01(1 - (v - min) /
\* (max - min)) for a low-is-better one, a metric outside the table counting
\* as high-is-better; every displayed value lies in [0, 100].
C7_NormalizedDisplay ==
    NormalizedRadar =>
        \A i \in 1..Len(all_parsed_data), j \in 1..Len(call.metrics) :
            DocHas(i, call.test, call.metrics[j]) =>
                /\ IsNum(Shown(i, j))
                /\ Q(Shown(i, j)) = ClaimedDisplay(i, j)
                /\ Shown(i, j).n >= 0
                /\ Shown(i, j).n <= 100 * Shown(i, j).d

\* C7 (witness): a normalized radar in which a low-is-better metric is
\* displayed strictly between 0 and 100 and a metric outside the orientation
\* table is displayed too.
C7_Witness ==
    /\ NormalizedRadar
    /\ \E i \in 1..Len(all_parsed_data), j \in 1..Len(call.metrics) :
          /\ call.metrics[j] \in LowIsBetter
          /\ DocHas(i, call.test, call.metrics[j])
          /\ Shown(i, j).n > 0
          /\ Shown(i, j).n < 100 * Shown(i, j).d
    /\ \E i \in 1..Len(all_parsed_data), j \in 1..Len(call.metrics) :
          /\ call.metrics[j] \notin DOMAIN RADAR_KEY_METRICS_CONFIG
          /\ DocHas(i, call.test, call.metrics[j])

\* the cell of the table in the row whose label column holds the label,
\* under the column of a name
ColumnOf(name) ==
    CHOOSE k \in 1..Len(analysis.table_data.columns) :
        analysis.table_data.columns[k] = name
RowsOf(labelColumn, label) ==
    {r \in 1..Len(analysis.table_data.cells) :
        analysis.table_data.cells[r][ColumnOf(labelColumn)] = Text(label)}
CellOf(r, name) == analysis.table_data.cells[r][ColumnOf(name)]
MetricResult == call.fn = "metric" /\ analysis.type = "metric"
RadarResult == call.fn = "radar" /\ analysis.type = "radar" /\ call.metrics # <<>>

\* C8: where a document has no value for the metric at a test, the cell of
\* the table is missing and the chart has no point: in analyze_metric_data
\* no bar of the document at that test, in analyze_radar_data (normalized or
\* raw) a NaN vertex; a missing value is never shown as 0.
C8_MissingNeverZero ==
    /\ MetricResult =>
          \A i \in 1..Len(all_parsed_data), t \in TestsOf(all_parsed_data) :
              ~DocHas(i, t, call.metric) =>
                  /\ \A r \in RowsOf("Test Condition", t) :
                        CellOf(r, all_parsed_data[i].fileName) = NaN
                  /\ \A b \in 1..Len(analysis.fig.data) :
                        analysis.fig.data[b].name = all_parsed_data[i].fileName
                        => \A k \in 1..Len(analysis.fig.data[b].x) :
                              analysis.fig.data[b].x[k] # t
    /\ RadarResult =>
          \A i \in 1..Len(all_parsed_data), j \in 1..Len(call.metrics) :
              ~DocHas(i, call.test, call.metrics[j]) =>
                  /\ RowsOf("Metric", call.metrics[j]) # {}
                  /\ \A r \in RowsOf("Metric", call.metrics[j]) :
                        CellOf(r, all_parsed_data[i].fileName) = NaN
                  /\ analysis.fig.data[i].r[j] = NaN
                  /\ analysis.fig.data[i].customdata[j] = NaN

\* C8 (witness): a metric comparison whose table has a row for a test at
\* which one of the documents has no value while another has the value 0.
C8_Witness ==
    /\ MetricResult
    /\ \E i, h \in 1..Len(all_parsed_data), t \in TestsOf(all_parsed_data) :
          /\ ~DocHas(i, t, call.metric)
          /\ DocHas(h, t, call.metric)
          /\ RawOf(h, t, call.metric) = Rat(0, 1)
          /\ RowsOf("Test Condition", t) # {}

\* the table has rows, and the test and the metric of its row r
HasTable ==
    /\ (MetricResult \/ RadarResult)
    /\ analysis.table_data.cells # <<>>
Labels == IF call.fn = "metric" THEN <<"Metric", "Test Condition">> ELSE <<"Metric">>
RowTest(r) ==
    IF call.fn = "metric" THEN analysis.table_data.cells[r][2].s ELSE call.test
RowMetric(r) ==
    IF call.fn = "metric" THEN call.metric ELSE analysis.table_data.cells[r][1].s

\* the number that column k of row r was given, NaN if there is none
Given(r, k) ==
    IF DocHas(k, RowTest(r), RowMetric(r))
    THEN IF all_parsed_data[k].tests[RowTest(r)].metrics[RowMetric(r)].kind = "float"
         THEN Num(RawOf(k, RowTest(r), RowMetric(r)))
         ELSE NaN
    ELSE NaN

\* the columns of the table for 1, 2 and more documents
ColumnsAsClaimed ==
    LET names == FileNamesOf(all_parsed_data)
    IN  analysis.table_data.columns =
           Labels \o names \o
           (IF Len(names) = 2 THEN <<"Change", "% Change">>
            ELSE IF Len(names) > 2 THEN <<"Mean", "Std Dev">>
            ELSE <<>>)

\* C9 (as stated): with 2 documents every row gets Change = column2 -
\* column1 and % Change = Change / column1 * 100, the % Change missing where
\* column1 is 0; with 1 document no column is appended and with more than 2
\* Mean and Std Dev are appended.
C9_ExactChange ==
    HasTable =>
        /\ ColumnsAsClaimed
        /\ Len(all_parsed_data) = 2 =>
              \A r \in 1..Len(analysis.table_data.cells) :
                  LET c1 == Given(r, 1)
                      c2 == Given(r, 2)
                  IN  IF IsNum(c1) /\ IsNum(c2)
                      THEN /\ CellOf(r, "Change") = Num(RSub(Q(c2), Q(c1)))
                           /\ CellOf(r, "% Change") =
                                 IF c1.n = 0 THEN NaN
                                 ELSE Num(Times100(RDiv(RSub(Q(c2), Q(c1)), Q(c1))))
                      ELSE /\ CellOf(r, "Change") = NaN
                           /\ CellOf(r, "% Change") = NaN

\* C9 (amended): with 2 documents, a row whose two values are numbers gets
\* Change = column2 - column1 rounded to 3 decimals and % Change = (column2
\* - column1) / column1 * 100 rounded to 1 decimal, computed from the
\* unrounded difference, the % Change missing where column1 is 0; a row with
\* a value missing or not a number gets both cells missing; with 1 document
\* no column is appended and with more than 2 Mean and Std Dev are appended.
C9_RoundedChange ==
    HasTable =>
        /\ ColumnsAsClaimed
        /\ Len(all_parsed_data) = 2 =>
              \A r \in 1..Len(analysis.table_data.cells) :
                  LET c1 == Given(r, 1)
                      c2 == Given(r, 2)
                  IN  IF IsNum(c1) /\ IsNum(c2)
                      THEN /\ CellOf(r, "Change") = Num(Round(RSub(Q(c2), Q(c1)), 3))
                           /\ CellOf(r, "% Change") =
                                 IF c1.n = 0 THEN NaN
                                 ELSE Num(Round(Times100(RDiv(RSub(Q(c2), Q(c1)), Q(c1))), 1))
                      ELSE /\ CellOf(r, "Change") = NaN
                           /\ CellOf(r, "% Change") = NaN

\* C9 (witness): a table over 2 documents with a row whose column1 is 0
\* and whose column2 is a number other than 0, and a row whose % Change
\* is not a whole number.
C9_Witness ==
    /\ HasTable
    /\ Len(all_parsed_data) = 2
    /\ \E r \in 1..Len(analysis.table_data.cells) :
          /\ Given(r, 1) = Num(Rat(0, 1))
          /\ IsNum(Given(r, 2))
          /\ Given(r, 2).n # 0
    /\ \E r \in 1..Len(analysis.table_data.cells) :
          /\ IsNum(CellOf(r, "% Change"))
          /\ CellOf(r, "% Change").d # 1

\* ------------------------------------------------------------------------
\* Claims about the upload handling
\* ------------------------------------------------------------------------
\* What parse_posturography_data makes of a text, as one function: the
\* lines of a block, then the blocks, folded with the operators of the parser
LinesFold(ls, st) ==
    LET Step(acc, l) ==
            IF acc.raised THEN acc
            ELSE LET line == Strip(l)
                 IN  IF StartsWith(line, S_StarTestDate)
                     THEN LET after == DateStep(line, acc.date, acc.date_set)
                          IN  [acc EXCEPT !.date = after.date, !.date_set = after.date_set]
                     ELSE LET after == FieldStep(line, acc.metrics)
                          IN  [acc EXCEPT !.metrics = after.metrics, !.raised = after.raised]
        fold[k \in 0..Len(ls)] == IF k = 0 THEN st ELSE Step(fold[k - 1], ls[k])
    IN  fold[Len(ls)]

BlocksFold(blocks, file_name) ==
    LET Step(acc, block) ==
            IF acc.raised THEN acc
            ELSE LET blines == Split(block, <<NL>>)
                     name == Strip(blines[1])
                     key == DeriveTestKey(name)
                     done == LinesFold(Tail(blines),
                                [raised |-> FALSE, metrics |-> EmptyMap,
                                 date |-> acc.data.date, date_set |-> acc.date_set])
                 IN  IF key = <<>> THEN acc
                     ELSE [raised |-> done.raised,
                           date_set |-> done.date_set,
                           data |-> [acc.data EXCEPT
                              !.date = done.date,
                              !.tests = IF Retained(done.metrics)
                                        THEN Put(acc.data.tests, key,
                                                 [fullName |-> StripTrailingColon(name),
                                                  metrics |-> done.metrics])
                                        ELSE acc.data.tests]]
        fold[k \in 0..Len(blocks)] ==
            IF k = 0 THEN [raised |-> FALSE, date_set |-> FALSE, data |-> NewData(file_name)]
            ELSE Step(fold[k - 1], blocks[k])
    IN  fold[Len(blocks)]

ParseOutcome(text, file_name) ==
    LET blocks == Tail(ReSplitTest(text))
        end == BlocksFold(blocks, file_name)
    IN  IF blocks = <<>> THEN [result |-> "null", data |-> NewData(file_name)]
        ELSE IF end.raised THEN [result |-> "raise", data |-> NewData(file_name)]
        ELSE [result |-> ReturnValue(end.data.tests), data |-> end.data]

\* whether a file parses, and its Document
Parses(file) == file.utf8 /\ ParseOutcome(file.text, file.name).result = "doc"
DocumentOf(file) == ParseOutcome(file.text, file.name).data

\* the same elements the same number of times
SameElements(a, b) ==
    \A x \in {a[k] : k \in 1..Len(a)} \cup {b[k] : k \in 1..Len(b)} :
        Cardinality({k \in 1..Len(a) : a[k] = x}) = Cardinality({k \in 1..Len(b) : b[k] = x})

\* the documents and the errors that the files of a batch come to
DocumentsOf(files) ==
    LET good == SelectSeq(files, Parses)
    IN  [k \in 1..Len(good) |-> DocumentOf(good[k])]
FailedNamesOf(files) ==
    LET bad == SelectSeq(files, LAMBDA f : ~Parses(f))
    IN  [k \in 1..Len(bad) |-> bad[k].name]

\* C10: for any batch of uploaded files, once the upload is handled the
\* documents in st.session_state are exactly the Documents of the files of
\* the batch that parsed, and every file that did not parse is reported,
\* whatever the place of the failing files in the batch.
C10_StoredAreTheParsed ==
    (upload.pc = "idle" /\ uploaded_files # <<>>) =>
        /\ SameElements(session_state.all_parsed_data, DocumentsOf(uploaded_files))
        /\ [k \in 1..Len(upload.parse_errors) |-> upload.parse_errors[k].file]
              = FailedNamesOf(uploaded_files)

\* C10, for the batches that are handled: the step that ends the handling
\* of a batch stores exactly the Documents of its files that parsed and has
\* reported each of the others.
C10_HandledBatchIsolated ==
    [][(upload.pc = "loop" /\ upload'.pc = "idle") =>
          /\ SameElements(session_state'.all_parsed_data, DocumentsOf(uploaded_files))
          /\ [k \in 1..Len(upload.parse_errors) |-> upload.parse_errors[k].file]
                = FailedNamesOf(uploaded_files)]_vars

\* ------------------------------------------------------------------------
\* C11: the busy flag of the interpretation
\* ------------------------------------------------------------------------
Busy == session_state.generating_ai
Interpretation == session_state.interpretation
Documents == session_state.all_parsed_data

\* the outcomes of a request that are failures, and the text each is to
\* leave for the user to read
Failures == {o \in ServiceOutcomes : o.kind # "text"}
ErrorTexts ==
    {"Error: GEMINI_API_KEY not found in st.secrets. Please add it.",
     "An error occurred: exception", "An error occurred: timeout"}
ErrorTextOf(o) ==
    IF o.kind = "no key"
    THEN "Error: GEMINI_API_KEY not found in st.secrets. Please add it."
    ELSE "An error occurred: " \o o.e

\* a step starts a request when it makes the text the waiting message
Starts == Interpretation # GENERATING_MESSAGE /\ Interpretation' = GENERATING_MESSAGE

\* C11, for each step: a request starts only while the flag is clear and
\* sets it; the step that ends a request, whatever the call did, clears the
\* flag and keeps the documents; when the call failed the text is then the
\* error message of that failure
BusyFlagStep ==
    /\ Starts => ~Busy /\ Busy'
    /\ ~Busy /\ Busy' => Starts /\ Documents' = Documents
    /\ \A o \in ServiceOutcomes :
          GenerateInterpretation(o) =>
              /\ Busy /\ ~Busy'
              /\ Documents' = Documents
              /\ o \in Failures => Interpretation' = ErrorTextOf(o)
              /\ o \notin Failures => Interpretation' = o.text

\* C11: the interpretation busy flag follows its protocol: every step is a
\* step of the protocol (BusyFlagStep); when a request has failed, the error
\* text is shown and a further request can be started; and every request
\* that was started ends, with the flag clear again
C11_BusyFlagProtocol ==
    /\ [][BusyFlagStep]_vars
    /\ [](Interpretation \in ErrorTexts => ~Busy /\ ENABLED ClickGenerate)
    /\ (Busy ~> ~Busy)

\* C11: a request has timed out: the flag is clear, the error is shown and
\* the documents are there
C11_Witness ==
    /\ ~Busy
    /\ Interpretation = "An error occurred: timeout"
    /\ Documents # <<>>

\* ------------------------------------------------------------------------
\* C12: the radial axis of a radar of raw values
\* ------------------------------------------------------------------------
RawRadar ==
    /\ call.fn = "radar"
    /\ analysis.type = "radar"
    /\ call.metrics # <<>>
    /\ ~call.normalize

\* the raw values that are plotted, their least and their greatest
PlottedRaw ==
    {RawOf(p[1], call.test, call.metrics[p[2]]) :
        p \in {q \in (1..Len(all_parsed_data)) \X (1..Len(call.metrics)) :
                  DocHas(q[1], call.test, call.metrics[q[2]])}}
NaturalMin == CHOOSE x \in PlottedRaw : \A y \in PlottedRaw : ~RLess(y, x)
NaturalMax == CHOOSE x \in PlottedRaw : \A y \in PlottedRaw : ~RLess(x, y)
AxisLo == analysis.fig.range[1]
AxisHi == analysis.fig.range[2]
Zero == Rat(0, 1)
One == Rat(1, 1)

\* lo < hi and every plotted value lies in [lo, hi]
AxisHoldsValues ==
    /\ RLess(AxisLo, AxisHi)
    /\ \A v \in PlottedRaw : ~RLess(v, AxisLo) /\ ~RLess(AxisHi, v)

\* C12: with normalize = false the range [lo, hi] of the radial axis is
\* [0, 1] if no value is plotted; lo is 0 whenever the least plotted value is
\* positive, also when the least and the greatest value are equal; hi is the
\* value plus one if the least and the greatest value are equal; lo < hi and
\* every plotted value lies in [lo, hi].
C12_RawAxisRange ==
    RawRadar =>
        /\ PlottedRaw = {} => AxisLo = Zero /\ AxisHi = One
        /\ PlottedRaw # {} =>
              /\ RLess(Zero, NaturalMin) => AxisLo = Zero
              /\ NaturalMin = NaturalMax => AxisHi = RAdd(NaturalMax, One)
        /\ AxisHoldsValues

\* C12, as far as it holds: the same, with lo = 0 for a positive least value
\* only when the least and the greatest value differ; when they are equal
\* the range is [value, value + 1]
C12_RawAxisRangeUnlessEqual ==
    RawRadar =>
        /\ PlottedRaw = {} => AxisLo = Zero /\ AxisHi = One
        /\ PlottedRaw # {} =>
              /\ RLess(Zero, NaturalMin) /\ NaturalMin # NaturalMax => AxisLo = Zero
              /\ NaturalMin = NaturalMax =>
                    AxisLo = NaturalMin /\ AxisHi = RAdd(NaturalMax, One)
        /\ AxisHoldsValues

\* ------------------------------------------------------------------------
\* C13: the analysis that is current
\* ------------------------------------------------------------------------
CurrentAnalysis == session_state.current_analysis

\* the analysis of a selection over documents
AnalysisOf(sel, docs) ==
    IF sel.analysis_mode = MODE_METRIC
    THEN AnalyzeMetric(sel.selected_metric, docs)
    ELSE AnalyzeRadar(sel.selected_test, sel.selected_radar_metrics, docs,
                      sel.normalize_radar)

\* a radar with every metric unchecked
NothingChecked(sel) ==
    sel.analysis_mode = MODE_RADAR /\ sel.selected_radar_metrics = <<>>

\* the user has changed the selection, or the files in the uploader
SelectionChanges == selection' # selection /\ selection' # NoSelection
FileSetChanges == uploaded_files' # uploaded_files

\* after a change of the selection the current analysis is the analysis of
\* the selection over the documents; with nothing checked it is the empty
\* analysis of that selection, or none
Recomputed ==
    \/ CurrentAnalysis' = AnalysisOf(selection', Documents')
    \/ NothingChecked(selection') /\ CurrentAnalysis' = NoAnalysis

\* after a change of the files nothing is left of the old documents and of
\* the old analysis: the session is the new one in which the files are parsed
Discarded ==
    /\ Documents' = <<>>
    /\ CurrentAnalysis' = NoAnalysis
    /\ selection' = NoSelection

\* C13: after every user action that changes the selection (mode, metric,
\* test condition, checked radar metrics, normalize flag) the analysis held
\* as current was recomputed from the current selection and the current
\* documents, and with every radar metric unchecked it is not the analysis
\* of an earlier selection; after every change of the file set the old
\* documents and the old analysis are discarded.
C13_CurrentIsRecomputed ==
    [][/\ SelectionChanges => Recomputed
       /\ FileSetChanges => Discarded]_vars

\* C13, as far as it holds: a change of the selection that leaves a radar
\* metric checked (or is to the bar chart) makes the current analysis the
\* analysis of the selection over the documents, and a batch of files whose
\* names are not the names handled last discards the documents and the
\* analysis.
C13_RecomputedWhenComputed ==
    [][/\ SelectionChanges /\ ~NothingChecked(selection') => Recomputed
       /\ (/\ FileSetChanges
           /\ uploaded_files' # <<>>
           /\ [i \in 1..Len(uploaded_files') |-> uploaded_files'[i].name]
                 # session_state.uploaded_file_names) => Discarded]_vars

\* C13, the first way it fails: every radar metric was unchecked and the
\* analysis of the selection before is still the current one
C13_NoStaleAfterUncheck ==
    [][SelectionChanges /\ NothingChecked(selection') => Recomputed]_vars

\* C13, the second way it fails: the files have changed and documents of the
\* files before are still there
C13_NoStaleAfterFiles ==
    [][FileSetChanges => Discarded]_vars

====
